---- MODULE Spec2Model ----
(***************************************************************************)
(* The task execution engine of ai_agent_platform                          *)
(* (src/src/ai_agent_platform/execution/engine.py) with the parts of the   *)
(* tool registry (tools/registry.py) and of the agent memory               *)
(* (memory/context.py) it calls.                                           *)
(*                                                                         *)
(* Every execute_chat_task / execute_tool_task call is a process whose pc  *)
(* is the statement it is suspended at.  asyncio runs the coroutines of    *)
(* one engine cooperatively; the model lets any process take the next step *)
(* at any time, which includes every schedule asyncio can produce.  The    *)
(* asyncio.Lock of the engine is a variable: a critical section is entered *)
(* by one step and left by another, so its mutual exclusion is a property  *)
(* of the model and not an assumption.                                     *)
(***************************************************************************)
EXTENDS Integers, Sequences, FiniteSets, TLC

(* ----------------------------- bounds ---------------------------------- *)
\* number of execute_* calls made on the engine
NumCalls == 2
\* number of different task_id values the callers use
NumIds == 2
\* largest reading of the clock (time.time())
MaxTime == 2

Calls == 1..NumCalls
TaskIds == 1..NumIds

\* the caller of cancel_task / get_task_status, as a holder of the lock
Client == NumCalls + 1
Procs == Calls \cup {Client}
\* an Optional value: absent (Python's None) or present
Nothing == <<>>
Some(v) == <<v>>

(* ----------------------------- TaskStatus ------------------------------ *)
PENDING == "pending"
RUNNING == "running"
COMPLETED == "completed"
FAILED == "failed"
CANCELLED == "cancelled"
TaskStatus == {PENDING, RUNNING, COMPLETED, FAILED, CANCELLED}

(* ----------------------------- exceptions ------------------------------ *)
\* an exception object: its class and the single argument it was built with
Exc(cls, msg) == [cls |-> cls, msg |-> msg]

\* str(e): the argument itself, except for KeyError, which prints its repr
Str(e) == IF e.cls = "KeyError" THEN "'" \o e.msg \o "'" ELSE e.msg

\* what the completion provider raises
ProviderErrors ==
    { Exc("Exception", "LLM service unavailable"),
      Exc("RuntimeError", "No active LLM provider available") }
\* what the retrieval service raises, or a result without "context_used"
RagErrors == { Exc("Exception", "chroma unavailable"), Exc("KeyError", "context_used") }
\* get_llm_manager / get_context_manager / get_rag_system failing
ManagerError == Exc("RuntimeError", "manager unavailable")
\* the tool table's database failing
DbError == Exc("OperationalError", "database unavailable")
\* _register_task failing inside its critical section
RegisterError == Exc("MemoryError", "")
\* a commit that breaks the unique constraint on tool_registry.tool_name
IntegrityError == Exc("IntegrityError", "UNIQUE constraint failed: tool_registry.tool_name")

(* ----------------------------- tool registry --------------------------- *)
PUBLIC == "public"
RESTRICTED == "restricted"
INTERNAL == "internal"
CLASSIFIED == "classified"
ToolSecurityLevel == {PUBLIC, RESTRICTED, INTERNAL, CLASSIFIED}

\* a row of the tool_registry table
Tool(is_public, level, allowed) ==
    [is_public |-> is_public, security_level |-> level,
     allowed_agent_types |-> allowed, is_deleted |-> FALSE]

\* the rows _register_builtin_tools offers to the table
BuiltinTools ==
    [n \in {"excel_reader", "pdf_analyzer", "financial_calculator",
            "report_generator", "database_connector", "api_client"} |->
       CASE n = "database_connector" ->
              Tool(FALSE, RESTRICTED, {"financial_calculator", "data_converter"})
         [] n = "api_client" -> Tool(FALSE, RESTRICTED, {"custom"})
         [] OTHER -> Tool(TRUE, PUBLIC, {})]

\* the names of builtin_tools, in the order of the list
BuiltinNames ==
    <<"excel_reader", "pdf_analyzer", "financial_calculator", "report_generator",
      "database_connector", "api_client">>

\* rows added with register_custom_tool: tools the task types ask for
CustomTools ==
    [n \in {"pandas_processor", "visualization_tool", "statistics_calculator",
            "text_generator", "code_analyzer", "generic_processor"} |->
       CASE n = "visualization_tool" -> Tool(FALSE, RESTRICTED, {})
         [] n = "statistics_calculator" -> Tool(FALSE, PUBLIC, {"custom"})
         [] OTHER -> Tool(TRUE, PUBLIC, {})]

\* the tables the engine is run against: empty, and with the custom rows
EmptyTable == [n \in {} |-> Tool(TRUE, PUBLIC, {})]
ToolTables == {EmptyTable, CustomTools}

\* f with the rows of g added under the names f does not hold
AddMissing(f, g) ==
    [n \in DOMAIN f \cup DOMAIN g |-> IF n \in DOMAIN f THEN f[n] ELSE g[n]]

\* select(ToolRegistry).where(tool_name == ...): the row of that name, deleted
\* or not
get_tool_any(table, tool_name) ==
    IF tool_name \in DOMAIN table THEN Some(table[tool_name]) ELSE Nothing

\* get_tool: the row of that name that is not deleted (scalar_one_or_none)
get_tool(table, tool_name) ==
    IF tool_name \in DOMAIN table /\ ~table[tool_name].is_deleted
    THEN Some(table[tool_name]) ELSE Nothing

\* the levels a clearance may use; an unknown clearance gets the public one
security_levels(security_clearance) ==
    CASE security_clearance = "public" -> {PUBLIC}
      [] security_clearance = "restricted" -> {PUBLIC, RESTRICTED}
      [] security_clearance = "internal" -> {PUBLIC, RESTRICTED, INTERNAL}
      [] OTHER -> {PUBLIC}

check_tool_access(table, tool_name, agent_type, security_clearance) ==
    LET found == get_tool(table, tool_name)
        tool == found[1]
    IN
    IF found = Nothing THEN FALSE
    ELSE IF tool.is_public /\ tool.security_level = PUBLIC THEN TRUE
    ELSE IF tool.security_level \notin security_levels(security_clearance) THEN FALSE
    ELSE IF tool.allowed_agent_types # {} /\ agent_type \notin tool.allowed_agent_types
         THEN FALSE
    ELSE TRUE

\* get_available_tools(agent_type, None, security_clearance): the names of the
\* rows the query selects; the agent type adds no condition (`pass`)
get_available_tools(table, agent_type, security_clearance) ==
    {n \in DOMAIN table :
        /\ ~table[n].is_deleted
        /\ CASE security_clearance = "public" ->
                   table[n].is_public /\ table[n].security_level = PUBLIC
             [] security_clearance = "restricted" ->
                   table[n].security_level \in {PUBLIC, RESTRICTED}
             [] OTHER -> TRUE}

(* ----------------------------- task types ------------------------------ *)
\* a table of task types whose fallback is a built-in tool
_determine_required_tools_builtin(task_type) ==
    CASE task_type = "data_analysis" ->
           <<"pandas_processor", "visualization_tool", "statistics_calculator">>
      [] OTHER -> <<"report_generator">>

_determine_required_tools(task_type) ==
    CASE task_type = "data_analysis" ->
           <<"pandas_processor", "visualization_tool", "statistics_calculator">>
      [] task_type = "content_generation" -> <<"text_generator", "template_engine">>
      [] task_type = "code_review" -> <<"code_analyzer", "security_scanner", "linter">>
      [] task_type = "web_scraping" -> <<"web_scraper", "html_parser">>
      [] task_type = "file_processing" -> <<"file_processor", "document_parser">>
      [] OTHER -> <<"generic_processor">>

(* ----------------------------- agent memory ---------------------------- *)
\* ConversationBufferWindowMemory(k=10): the window of the short-term memory
k == 10
\* history[-10:] in _build_chat_messages
HistoryLimit == 10
\* get_session_history(session_id, limit=20)
SessionHistoryLimit == 20

\* langchain messages: their type and their content
HumanMessage(content) == [type |-> "human", content |-> content]
AIMessage(content) == [type |-> "ai", content |-> content]

\* the key of ContextManager.agent_memories; an absent session_id is ""
MemoryKey(agent_id, session_id) ==
    IF session_id # "" THEN agent_id \o ":" \o session_id ELSE agent_id

\* AgentMemory(agent_id, session_id): an empty chat_memory; without a session_id
\* the memory gets a new one (uuid4), here numbered by the memories made so far
AgentMemory(agent_id, session_id, made) ==
    [agent_id |-> agent_id,
     session_id |-> IF session_id # "" THEN session_id ELSE "uuid4-" \o ToString(made),
     messages |-> <<>>]

\* a memory handle that is made anew at every call
get_agent_memory_fresh(memories, agent_id, session_id) ==
    LET key == MemoryKey(agent_id, session_id) IN
    [x \in DOMAIN memories \cup {key} |->
        IF x = key THEN AgentMemory(agent_id, session_id, Cardinality(DOMAIN memories))
        ELSE memories[x]]

\* get_agent_memory: agent_memories with the memory of the key made if it is missing
get_agent_memory(memories, agent_id, session_id) ==
    LET key == MemoryKey(agent_id, session_id) IN
    IF key \in DOMAIN memories THEN memories
    ELSE [x \in DOMAIN memories \cup {key} |->
            IF x = key
            THEN AgentMemory(agent_id, session_id, Cardinality(DOMAIN memories))
            ELSE memories[x]]

\* chat_memory.add_user_message / add_ai_message: the message is appended to
\* chat_memory.messages; a message of another class is not kept
add_message(memory, message) ==
    IF message.type \in {"human", "ai"}
    THEN [memory EXCEPT !.messages = Append(@, message)]
    ELSE memory

\* clear_session: short_term_memory.clear() empties chat_memory; the shared
\* store is not touched
clear_session(memory) == [memory EXCEPT !.messages = <<>>]

\* a ContextItem; its id (uuid4) is the number of the item in the store
ContextItem(id, type, content, timestamp, agent_id, session_id) ==
    [id |-> id, type |-> type, content |-> content, timestamp |-> timestamp,
     agent_id |-> agent_id, session_id |-> session_id]

\* store_context_item: the item is written under its id and its id is added to
\* the index of its agent and of its session; `except Exception:` drops the item
\* when the store fails
store_context_item(items, context_item, up) ==
    IF up THEN Append(items, context_item) ELSE items

\* the context item add_message makes of a message, at the time `timestamp`
MessageItem(memory, items, message, timestamp) ==
    ContextItem(Len(items) + 1, "message", message.content, timestamp,
                memory.agent_id, memory.session_id)

\* a ConversationTurn; context_used is the source list of the retrieval and
\* metadata names the agent and the session
ConversationTurn(user_message, agent_response, context_used, metadata) ==
    [user_message |-> user_message, agent_response |-> agent_response,
     context_used |-> context_used, metadata |-> metadata]

\* store_conversation_turn: lpush on the list of the session of the turn, newest
\* first; `except Exception:` drops the turn when the store fails
store_conversation_turn(store, turn, up) ==
    LET session_id == turn.metadata.session_id IN
    IF ~up \/ session_id = "" THEN store
    ELSE [x \in DOMAIN store \cup {session_id} |->
            IF x = session_id
            THEN <<turn>> \o (IF x \in DOMAIN store THEN store[x] ELSE <<>>)
            ELSE store[x]]

\* save_conversation_turn: the turn of this memory's agent and session is stored
save_conversation_turn(memory, store, user_message, agent_response, context_used, up) ==
    store_conversation_turn(
        store,
        ConversationTurn(user_message, agent_response, context_used,
                         [agent_id |-> memory.agent_id,
                          session_id |-> memory.session_id]),
        up)

\* s[:n]
FirstN(s, n) == SubSeq(s, 1, IF Len(s) < n THEN Len(s) ELSE n)
\* s[-n:]
LastN(s, n) == SubSeq(s, IF Len(s) > n THEN Len(s) - n + 1 ELSE 1, Len(s))
\* reversed(s)
Reversed(s) == [i \in 1..Len(s) |-> s[Len(s) + 1 - i]]

\* get_session_history: the newest `limit` turns of the session, newest first;
\* ContextItem(**item) raises on a source of the retrieval (it has other keys),
\* which is caught and gives an empty list, as does a failure of the store
get_session_history(store, session_id, limit, up) ==
    LET turns == IF session_id \in DOMAIN store
                 THEN FirstN(store[session_id], limit) ELSE <<>>
    IN IF ~up \/ \E i \in DOMAIN turns : turns[i].context_used # <<>> THEN <<>>
       ELSE turns

\* get_conversation_history: chat_memory.messages if there are any, else the
\* stored turns of the session, oldest first, each as its two messages
get_conversation_history(memory, store, up) ==
    IF memory.messages # <<>> THEN memory.messages
    ELSE LET turns == Reversed(get_session_history(store, memory.session_id,
                                                   SessionHistoryLimit, up))
         IN [i \in 1..(2 * Len(turns)) |->
               IF i % 2 = 1 THEN HumanMessage(turns[(i + 1) \div 2].user_message)
               ELSE AIMessage(turns[i \div 2].agent_response)]

(* ----------------------------- relevant context ----------------------- *)
UpperCase == "ABCDEFGHIJKLMNOPQRSTUVWXYZ"
LowerCase == "abcdefghijklmnopqrstuvwxyz"

\* str.lower() of one character
LowerChar(c) ==
    IF \E i \in 1..Len(UpperCase) : SubSeq(UpperCase, i, i) = c
    THEN LET i == CHOOSE j \in 1..Len(UpperCase) : SubSeq(UpperCase, j, j) = c
         IN SubSeq(LowerCase, i, i)
    ELSE c

\* s.lower()
RECURSIVE Lower(_)
Lower(s) == IF s = "" THEN "" ELSE LowerChar(SubSeq(s, 1, 1)) \o Lower(SubSeq(s, 2, Len(s)))

\* s.split(): the words between runs of blanks; `word` is the word being read
RECURSIVE SplitFrom(_, _)
SplitFrom(s, word) ==
    IF s = "" THEN (IF word = "" THEN <<>> ELSE <<word>>)
    ELSE IF SubSeq(s, 1, 1) = " "
         THEN (IF word = "" THEN <<>> ELSE <<word>>) \o SplitFrom(SubSeq(s, 2, Len(s)), "")
         ELSE SplitFrom(SubSeq(s, 2, Len(s)), word \o SubSeq(s, 1, 1))
Split(s) == SplitFrom(s, "")

\* `word in text` on strings: word is a substring of text
In(word, text) ==
    \E i \in 1..(Len(text) - Len(word) + 1) : SubSeq(text, i, i + Len(word) - 1) = word

\* list.sort(key=timestamp, reverse=True): stable, the newest first
RECURSIVE SortNewestFirst(_)
SortNewestFirst(items) ==
    IF items = <<>> THEN <<>>
    ELSE LET sorted == SortNewestFirst(SubSeq(items, 1, Len(items) - 1))
             x == items[Len(items)]
             before == Cardinality({i \in DOMAIN sorted : sorted[i].timestamp >= x.timestamp})
         IN SubSeq(sorted, 1, before) \o <<x>> \o SubSeq(sorted, before + 1, Len(sorted))

\* get_agent_context: `listed` is list(context_ids), the items of the agent in the
\* order the set gives them; the first `limit` of them are fetched and sorted
\* by timestamp, the newest first; a failing store gives []
get_agent_context(listed, limit, up) ==
    IF ~up THEN <<>> ELSE FirstN(SortNewestFirst(FirstN(listed, limit)), limit)

\* any(word in content_lower for word in query_lower.split())
KeywordMatch(query_lower, content_lower) ==
    \E i \in DOMAIN Split(query_lower) : In(Split(query_lower)[i], content_lower)

\* get_relevant_context: of the 2 * limit items get_agent_context gives, those
\* whose content holds a word of the query, cut to the first `limit`
get_relevant_context(listed, query, limit, up) ==
    LET items == get_agent_context(listed, limit * 2, up)
        relevant_items ==
            SelectSeq(items, LAMBDA item : KeywordMatch(Lower(query), Lower(item.content)))
    IN FirstN(relevant_items, limit)

(* ----------------------------- the prompt ------------------------------ *)
\* "\n\n".join(parts)
RECURSIVE Join(_)
Join(parts) ==
    IF parts = <<>> THEN ""
    ELSE IF Len(parts) = 1 THEN parts[1]
    ELSE parts[1] \o "\n\n" \o Join(Tail(parts))

\* the system message describing the agent
SystemContent == "You are the agent"

\* the messages of a prompt: the system message, the given messages of the
\* history (role user only for a message whose type is "HumanMessage"), the
\* grounding as a system message if there is any, the current user message
ChatMessages(message, history, context_parts) ==
    <<[role |-> "system", content |-> SystemContent]>>
    \o [i \in 1..Len(history) |->
          [role |-> IF history[i].type = "HumanMessage" THEN "user" ELSE "assistant",
           content |-> history[i].content]]
    \o (IF context_parts # <<>>
        THEN <<[role |-> "system", content |-> Join(context_parts)]>> ELSE <<>>)
    \o <<[role |-> "user", content |-> message]>>

\* a prompt with the whole history
_build_chat_messages_all(message, history, context_parts) ==
    ChatMessages(message, history, context_parts)

\* _build_chat_messages: the prompt takes the last 10 messages of the history
_build_chat_messages(message, history, context_parts) ==
    ChatMessages(message, LastN(history, HistoryLimit), context_parts)

(* ----------------------------- state ----------------------------------- *)
VARIABLES
    active_tasks,     \* engine.active_tasks: task_id -> the call whose context is stored
    task_lock,        \* engine._task_lock: the set of processes holding it
    pc,               \* the statement each execute_* call is at
    call,             \* the arguments of each execute_* call
    context,          \* the ExecutionContext passed to each call
    frame,            \* the local variables of each call
    outcome,          \* what each call gave its caller: a TaskResult or an exception
    toolTable,        \* the tool_registry table behind UniversalToolRegistry
    now,              \* time.time()
    client,           \* the caller of cancel_task / get_task_status
    unregister_runs,  \* how often the cleanup of each call ran _unregister_task
    cancelled,        \* the calls whose entry a cancel_task removed (it returned True)
    ended,            \* the task ids that were unregistered or cancelled so far
    agent_memories,   \* ContextManager.agent_memories: key -> AgentMemory
    session_turns,    \* the shared store: session_id -> its turns, newest first
    access,           \* the last check_tool_access call and what it returned
    store_up,         \* whether the shared store answers (Redis reachable)
    context_items,    \* the shared store: the context items, in the order stored
    relevant,         \* the last get_relevant_context call and what it returned
    conversation,     \* the get_conversation_history call being answered, if any
    cleared,          \* the messages clear_session discarded: <<key, content>>
    handles,          \* <<agent_id, session_id>> -> the key of the memory it was given
    listing           \* the get_available_tools call being answered, if any

vars == <<active_tasks, task_lock, pc, call, context, frame, outcome, toolTable,
          now, client, unregister_runs, cancelled, ended, agent_memories,
          session_turns, access, store_up, context_items, relevant, conversation,
          cleared, handles, listing>>

\* the variables only the tool registry and the clock change
env == <<toolTable, now>>
\* the history of the registry
hist == <<unregister_runs, cancelled, ended>>
\* the memory, the shared store and the caller of check_tool_access
\* the callers of get_relevant_context and get_conversation_history
rest == <<listing>>
more == <<handles, rest>>
extra == <<cleared, more>>
asks == <<relevant, conversation, extra>>
\* the rest of the shared store and these callers
ctx == <<store_up, context_items, asks>>
mem == <<agent_memories, session_turns, access, ctx>>

NoCall ==
    [op |-> "none", use_rag |-> FALSE, task_type |-> "", agent_type |-> "", message |-> "",
     agent_id |-> "", session_id |-> "", security_clearance |-> ""]
NoContext ==
    [task_id |-> 0, agent_id |-> "", session_id |-> "", started_at |-> Nothing,
     completed_at |-> Nothing]
NoFrame ==
    [start_time |-> 0, exc |-> Nothing, context_parts |-> <<>>, sources_used |-> <<>>,
     response |-> Nothing, required_tools |-> <<>>, accessible_tools |-> <<>>,
     execution_time |-> 0, provider_calls |-> 0, handler |-> "", found |-> Nothing,
     agent_memory |-> Nothing, rag_queries |-> 0, rag_exc |-> Nothing,
     history |-> <<>>, messages |-> <<>>, store_errors |-> 0, registered |-> 0]
NoAccess == [tool_name |-> "", agent_type |-> "", security_clearance |-> "", ret |-> FALSE]
NoRelevant == [asked |-> FALSE, agent_id |-> "", query |-> "", limit |-> 0, ret |-> <<>>]
NoConversation == [asked |-> FALSE, agent_id |-> "", session_id |-> "", ret |-> <<>>]
NoOutcome == [kind |-> "none"]
NoListing == [asked |-> FALSE, agent_type |-> "", security_clearance |-> "", ret |-> {}]

\* a result without its execution time
TaskResultUntimed(task_id, status, output_data, error_message, ms, tools_used) ==
    [kind |-> "TaskResult", task_id |-> task_id, status |-> status,
     output_data |-> output_data, error_message |-> error_message,
     execution_time_ms |-> Nothing, tools_used |-> tools_used]

\* TaskResult(...), with the defaults of the dataclass
TaskResult(task_id, status, output_data, error_message, execution_time_ms, tools_used) ==
    [kind |-> "TaskResult", task_id |-> task_id, status |-> status,
     output_data |-> output_data, error_message |-> error_message,
     execution_time_ms |-> execution_time_ms, tools_used |-> tools_used]

\* the exception left the coroutine
Raised(e) == [kind |-> "raised", exc |-> e]

\* the state after AgentExecutionEngine(db_session), no call made yet, against
\* one of the given tool tables
InitWith(tables) ==
    /\ active_tasks = [t \in {} |-> 0]
    /\ task_lock = {}
    /\ pc = [p \in Calls |-> "idle"]
    /\ call = [p \in Calls |-> NoCall]
    /\ context = [p \in Calls |-> NoContext]
    /\ frame = [p \in Calls |-> NoFrame]
    /\ outcome = [p \in Calls |-> NoOutcome]
    /\ toolTable \in tables
    /\ now = 0
    /\ client = [pc |-> "idle", task_id |-> 0, ret |-> ""]
    /\ unregister_runs = [p \in Calls |-> 0]
    /\ cancelled = {}
    /\ ended = {}
    /\ agent_memories = [x \in {} |-> AgentMemory("", "", 0)]
    /\ session_turns = [x \in {} |-> <<>>]
    /\ access = NoAccess
    /\ store_up = TRUE
    /\ context_items = <<>>
    /\ relevant = NoRelevant
    /\ conversation = NoConversation
    /\ cleared = {}
    /\ handles = [x \in {} |-> ""]
    /\ listing = NoListing

(* ----------------------------- helpers --------------------------------- *)
Put(f, key, v) == [x \in DOMAIN f \cup {key} |-> IF x = key THEN v ELSE f[x]]
Del(f, key) == [x \in DOMAIN f \ {key} |-> f[x]]
Range(s) == {s[i] : i \in DOMAIN s}

\* int((time.time() - start_time) * 1000)
ElapsedMs(start_time) == (now - start_time) * 1000

Goto(p, l) == pc' = [pc EXCEPT ![p] = l]

(* ----------------------------- the task registry ----------------------- *)
\* a lock that lets a second process in
AcquireNoWait(p) == task_lock' = task_lock \cup {p}

\* a lock whose holder keeps it on the way out
ReleaseNever(p) == task_lock' = task_lock

\* async with self._task_lock: entered only when nobody holds the lock
Acquire(p) ==
    /\ task_lock = {}
    /\ task_lock' = {p}

Release(p) == task_lock' = task_lock \ {p}

\* _register_task up to the stamp: the lock is taken and started_at is set
RegisterEnter(p) ==
    /\ pc[p] = "register"
    /\ Acquire(p)
    /\ context' = [context EXCEPT ![p].started_at = Some(now)]
    /\ Goto(p, "register_cs")
    /\ UNCHANGED <<active_tasks, call, frame, outcome, env, client, mem, hist>>

\* the map rebuilt from the one entry: the other entries are lost
InsertAlone(p) == active_tasks' = [x \in {context[p].task_id} |-> p]

\* self.active_tasks[context.task_id] = context
Insert(p) == active_tasks' = Put(active_tasks, context[p].task_id, p)

\* _register_task from the insertion on: the context is stored, the lock released
RegisterLeave(p) ==
    /\ pc[p] = "register_cs"
    /\ Insert(p)
    /\ Release(p)
    /\ Goto(p, IF call[p].op = "chat" THEN "managers" ELSE "tool_init")
    /\ UNCHANGED <<call, context, frame, outcome, env, client, mem, hist>>

\* an except clause that does not catch e: `finally:` runs and e propagates
RaiseUncaught(p, e) ==
    /\ frame' = [frame EXCEPT ![p].exc = Some(e)]
    /\ Goto(p, "finally")

\* the body of `try:` raised e: control goes to `except Exception as e:`
Raise(p, e) ==
    /\ frame' = [frame EXCEPT ![p].exc = Some(e)]
    /\ Goto(p, "except")

\* a return that is not covered by `finally:`
ReturnNoFinally(p, r) ==
    /\ outcome' = [outcome EXCEPT ![p] = r]
    /\ Goto(p, "done")

\* `return r` inside try/except: the value is kept while `finally:` runs
Return(p, r) ==
    /\ outcome' = [outcome EXCEPT ![p] = r]
    /\ Goto(p, "finally")

\* _register_task raising inside `async with`: the lock is released on the way out
RegisterFail(p) ==
    /\ pc[p] = "register_cs"
    /\ Release(p)
    /\ Raise(p, RegisterError)
    /\ UNCHANGED <<active_tasks, call, context, outcome, env, client, mem, hist>>

\* the text of the log line instead of str(e)
ErrorMessageLog(e) == <<"Chat task execution failed: " \o Str(e)>>

\* the error message of the except clause: str(e), one piece of text
ErrorMessage(e) == <<Str(e)>>

\* an except clause that stores the context again to record the failure
ExceptReRegisters(p) ==
    /\ pc[p] = "except"
    /\ active_tasks' = Put(active_tasks, context[p].task_id, p)
    /\ Return(p, TaskResult(context[p].task_id, FAILED, Nothing,
                            Some(ErrorMessage(frame[p].exc[1])),
                            Some(ElapsedMs(frame[p].start_time)), <<>>))
    /\ UNCHANGED <<task_lock, call, context, frame, env, client, mem, hist>>

\* except Exception as e: return TaskResult(status=FAILED, error_message=str(e), ...)
Except(p) ==
    /\ pc[p] = "except"
    /\ Return(p, TaskResult(context[p].task_id, FAILED, Nothing,
                            Some(ErrorMessage(frame[p].exc[1])),
                            Some(ElapsedMs(frame[p].start_time)), <<>>))
    /\ UNCHANGED <<active_tasks, task_lock, call, context, frame, env, client, mem, hist>>

\* _unregister_task without its membership test
UnregisterEnterNoTest(p) ==
    /\ pc[p] = "finally"
    /\ Acquire(p)
    /\ frame' = [frame EXCEPT ![p].found = Some(TRUE)]
    /\ unregister_runs' = [unregister_runs EXCEPT ![p] = @ + 1]
    /\ Goto(p, "unregister_cs")
    /\ UNCHANGED <<active_tasks, call, context, outcome, env, client, mem, cancelled, ended>>

\* _unregister_task up to the stamp: the lock is taken, the membership test made
\* and completed_at set on the stored context
UnregisterEnter(p) ==
    LET task_id == context[p].task_id
        present == task_id \in DOMAIN active_tasks
    IN
    /\ pc[p] = "finally"
    /\ Acquire(p)
    /\ context' = IF present
                  THEN [context EXCEPT ![active_tasks[task_id]].completed_at = Some(now)]
                  ELSE context
    /\ frame' = [frame EXCEPT ![p].found = Some(present)]
    /\ unregister_runs' = [unregister_runs EXCEPT ![p] = @ + 1]
    /\ Goto(p, "unregister_cs")
    /\ UNCHANGED <<active_tasks, call, outcome, env, client, mem, cancelled, ended>>

\* del self.active_tasks[task_id] (KeyError if the key has gone), the lock is
\* released and the call returns what its try/except chose
UnregisterLeave(p) ==
    LET task_id == context[p].task_id
        found == frame[p].found[1]
        gone == found /\ task_id \notin DOMAIN active_tasks
    IN
    /\ pc[p] = "unregister_cs"
    /\ active_tasks' = IF found /\ ~gone THEN Del(active_tasks, task_id) ELSE active_tasks
    /\ ended' = IF found /\ ~gone THEN ended \cup {task_id} ELSE ended
    /\ outcome' = IF gone THEN [outcome EXCEPT ![p] = Raised(Exc("KeyError", "task_id"))]
                  ELSE outcome
    /\ Release(p)
    /\ Goto(p, "done")
    /\ UNCHANGED <<call, context, frame, env, client, mem, unregister_runs, cancelled>>

(* ----------------------------- cancel_task / get_task_status ----------- *)
\* the client calls op(task_id) and takes the lock
ClientEnter(op, task_id) ==
    /\ client.pc = "idle"
    /\ Acquire(Client)
    /\ client' = [pc |-> op, task_id |-> task_id, ret |-> ""]
    /\ UNCHANGED <<active_tasks, pc, call, context, frame, outcome, env, mem, hist>>

\* a cancel that empties the registry
cancel_clears(tasks, task_id) == [x \in {} |-> 0]

\* del self.active_tasks[task_id] in cancel_task
cancel_del(tasks, task_id) == Del(tasks, task_id)

\* cancel_task: the entry is deleted if it is there; True or False is returned
CancelLeave ==
    LET task_id == client.task_id
        present == task_id \in DOMAIN active_tasks
    IN
    /\ client.pc = "cancel_task"
    /\ active_tasks' = IF present THEN cancel_del(active_tasks, task_id) ELSE active_tasks
    /\ cancelled' = IF present THEN cancelled \cup {active_tasks[task_id]} ELSE cancelled
    /\ ended' = IF present THEN ended \cup {task_id} ELSE ended
    /\ client' = [client EXCEPT !.pc = "idle", !.ret = IF present THEN "True" ELSE "False"]
    /\ Release(Client)
    /\ UNCHANGED <<pc, call, context, frame, outcome, env, mem, unregister_runs>>

\* a status that remembers the tasks that ended
get_task_status_kept(tasks, task_id) ==
    IF task_id \in DOMAIN tasks THEN RUNNING
    ELSE IF task_id \in ended THEN COMPLETED ELSE "None"

\* the body of get_task_status: RUNNING if the id is a key of active_tasks, else None
get_task_status(tasks, task_id) ==
    IF task_id \in DOMAIN tasks THEN RUNNING ELSE "None"

\* get_task_status under the lock
StatusLeave ==
    /\ client.pc = "get_task_status"
    /\ client' = [client EXCEPT !.pc = "idle",
                     !.ret = get_task_status(active_tasks, client.task_id)]
    /\ Release(Client)
    /\ UNCHANGED <<active_tasks, pc, call, context, frame, outcome, env, mem, hist>>

(* ----------------------------- inputs ---------------------------------- *)
AgentTypes == {"custom", "excel_processor"}
TaskTypes ==
    {"data_analysis", "content_generation", "code_review", "web_scraping",
     "file_processing", "summarize"}
\* what the completion provider answers
Responses == {"answer"}
\* what rag_system.query returns: no documents; documents with metadata;
\* documents without metadata (context_used with an empty source list)
RagResults ==
    { [answer |-> "I don't have relevant information", sources |-> <<>>,
       context_used |-> FALSE],
      [answer |-> "grounded", sources |-> <<"chunk1">>, context_used |-> TRUE],
      [answer |-> "grounded", sources |-> <<>>, context_used |-> TRUE] }

\* the agent and the session the calls are made for, and the user's message
AgentId == "agent1"
SessionId == "s1"
Hello == "hello"

ChatCalls ==
    [op : {"chat"}, use_rag : BOOLEAN, task_type : {""}, agent_type : {"custom"},
     message : {Hello}, agent_id : {AgentId}, session_id : {SessionId},
     security_clearance : {PUBLIC}]
ToolCalls ==
    [op : {"tool"}, use_rag : {FALSE}, task_type : TaskTypes, agent_type : AgentTypes,
     message : {""}, agent_id : {AgentId}, session_id : {SessionId},
     security_clearance : {PUBLIC}]

(* ----------------------------- execute_* ------------------------------- *)
\* the call is made: start_time = time.time(), then `await self._register_task`
Start(p, c, task_id) ==
    /\ pc[p] = "idle"
    /\ call' = [call EXCEPT ![p] = c]
    /\ context' = [context EXCEPT ![p] = [NoContext EXCEPT !.task_id = task_id,
                                                           !.agent_id = c.agent_id,
                                                           !.session_id = c.session_id]]
    /\ frame' = [frame EXCEPT ![p].start_time = now]
    /\ Goto(p, "register")
    /\ UNCHANGED <<active_tasks, task_lock, outcome, env, client, mem, hist>>

\* get_llm_manager(), get_context_manager(), get_rag_system(), get_agent_memory()
\* a retrieval that is asked whatever use_rag says
UseRagAlways(c) == TRUE

\* `if use_rag:`
UseRag(c) == c.use_rag

ChatManagers(p) ==
    /\ pc[p] = "managers"
    /\ \/ /\ agent_memories' = get_agent_memory(agent_memories, context[p].agent_id,
                                                 context[p].session_id)
          /\ frame' = [frame EXCEPT ![p].agent_memory =
                           Some(MemoryKey(context[p].agent_id, context[p].session_id))]
          /\ Goto(p, IF UseRag(call[p]) THEN "rag" ELSE "history")
       \/ /\ Raise(p, ManagerError)
          /\ UNCHANGED agent_memories
    /\ UNCHANGED <<active_tasks, task_lock, call, context, outcome, env, client,
                   session_turns, access, ctx, hist>>

\* a result with "context_used" and "answer" but without "sources": the answer is
\* appended to context_parts, then rag_result["sources"] raises KeyError, which
\* is logged and dropped
RagExceptNoSources(p, answer) ==
    /\ frame' = [frame EXCEPT ![p].rag_queries = @ + 1,
                              ![p].context_parts = <<"Relevant context:\n" \o answer>>,
                              ![p].rag_exc = Some(Exc("KeyError", "sources"))]
    /\ Goto(p, "history")

\* except Exception as e: logger.warning(...) around the retrieval: context_parts
\* and sources_used stay empty and the task goes on
RagExcept(p, e) ==
    /\ frame' = [frame EXCEPT ![p].rag_queries = @ + 1, ![p].rag_exc = Some(e)]
    /\ Goto(p, "history")

\* await rag_system.query(...): a result, an exception, or a result that lacks a
\* key; what is raised is logged and dropped
ChatRag(p) ==
    /\ pc[p] = "rag"
    /\ \/ \E r \in RagResults :
            /\ frame' = IF r.context_used
                        THEN [frame EXCEPT ![p].rag_queries = @ + 1,
                                           ![p].context_parts =
                                               <<"Relevant context:\n" \o r.answer>>,
                                           ![p].sources_used = r.sources]
                        ELSE [frame EXCEPT ![p].rag_queries = @ + 1]
            /\ Goto(p, "history")
       \/ \E e \in RagErrors : RagExcept(p, e)
       \/ RagExceptNoSources(p, "grounded")
    /\ UNCHANGED <<active_tasks, task_lock, call, context, outcome, env, client, mem, hist>>

\* await agent_memory.get_conversation_history(); _build_chat_messages(...); the
\* request goes to the completion provider
ChatHistory(p) ==
    /\ pc[p] = "history"
    /\ LET history == get_conversation_history(agent_memories[frame[p].agent_memory[1]],
                                               session_turns, store_up)
       IN frame' = [frame EXCEPT ![p].history = history,
                                 ![p].messages =
                                     _build_chat_messages(call[p].message, history,
                                                          frame[p].context_parts),
                                 ![p].provider_calls = @ + 1]
    /\ Goto(p, "llm")
    /\ UNCHANGED <<active_tasks, task_lock, call, context, outcome, env, client, mem, hist>>

\* a task that puts the user message in the buffer before it asks the provider
ChatLLMAfterAppend(p) ==
    LET key == frame[p].agent_memory[1] IN
    /\ pc[p] = "llm"
    /\ agent_memories' =
           [agent_memories EXCEPT ![key] = add_message(@, HumanMessage(call[p].message))]
    /\ \/ \E r \in Responses :
            /\ frame' = [frame EXCEPT ![p].response = Some(r)]
            /\ Goto(p, "store_response")
       \/ \E e \in ProviderErrors : Raise(p, e)
    /\ UNCHANGED <<active_tasks, task_lock, call, context, outcome, env, client,
                   session_turns, access, ctx, hist>>

\* await llm_manager.chat_completion(messages): an answer or an exception
ChatLLM(p) ==
    /\ pc[p] = "llm"
    /\ \/ \E r \in Responses :
            /\ frame' = [frame EXCEPT ![p].response = Some(r)]
            /\ Goto(p, "store")
       \/ \E e \in ProviderErrors : Raise(p, e)
    /\ UNCHANGED <<active_tasks, task_lock, call, context, outcome, env, client, mem, hist>>

\* a failure of the store that leaves the coroutine
StoreExceptFatal(p, execution_time, next) ==
    Raise(p, Exc("ConnectionError", "redis unavailable"))

\* `except Exception as e: logger.error(...)` in the memory and in the store:
\* the write is lost, the failure is logged and the task goes on
StoreExcept(p, execution_time, next) ==
    /\ frame' = [frame EXCEPT ![p].store_errors = @ + 1,
                              ![p].execution_time = execution_time]
    /\ Goto(p, next)

\* agent_memory.add_message(message) of the call p: the message is appended to
\* the buffer, then the store is asked to keep its context item
ChatAddMessage(p, message, next) ==
    LET key == frame[p].agent_memory[1]
        memory == agent_memories[key]
    IN
    /\ agent_memories' = [agent_memories EXCEPT ![key] = add_message(memory, message)]
    /\ context_items' =
           store_context_item(context_items,
                              MessageItem(memory, context_items, message, now), store_up)
    /\ \/ /\ store_up
          /\ Goto(p, next)
          /\ UNCHANGED frame
       \/ /\ ~store_up
          /\ StoreExcept(p, frame[p].execution_time, next)
    /\ UNCHANGED <<active_tasks, task_lock, call, context, outcome, env, client,
                   session_turns, access, store_up, asks, hist>>

\* await agent_memory.add_message(HumanMessage(content=message))
ChatStore(p) ==
    /\ pc[p] = "store"
    /\ ChatAddMessage(p, HumanMessage(call[p].message), "store_response")

\* await agent_memory.add_message(AIMessage(content=response))
ChatStoreResponse(p) ==
    /\ pc[p] = "store_response"
    /\ ChatAddMessage(p, AIMessage(frame[p].response[1]), "save_turn")

\* await agent_memory.save_conversation_turn(message, response, sources_used), then
\* execution_time is taken
ChatSaveTurn(p) ==
    LET memory == agent_memories[frame[p].agent_memory[1]]
        execution_time == ElapsedMs(frame[p].start_time)
    IN
    /\ pc[p] = "save_turn"
    /\ session_turns' =
           save_conversation_turn(memory, session_turns, call[p].message,
                                  frame[p].response[1], frame[p].sources_used, store_up)
    /\ \/ /\ store_up
          /\ frame' = [frame EXCEPT ![p].execution_time = execution_time]
          /\ Goto(p, "estimate")
       \/ /\ ~store_up
          /\ StoreExcept(p, execution_time, "estimate")
    /\ UNCHANGED <<active_tasks, task_lock, call, context, outcome, env, client,
                   agent_memories, access, ctx, hist>>

\* context_used told by the source list
ContextUsedBySources(context_parts, sources_used) == Len(sources_used) > 0

\* "context_used": len(context_parts) > 0
ContextUsed(context_parts, sources_used) == Len(context_parts) > 0

\* await self._estimate_memory_usage(agent_memory); return TaskResult(COMPLETED, ...)
ChatReturn(p) ==
    /\ pc[p] = "estimate"
    /\ Return(p, TaskResult(context[p].task_id, COMPLETED,
                            Some([response |-> frame[p].response[1],
                                  sources |-> frame[p].sources_used,
                                  context_used |-> ContextUsed(frame[p].context_parts,
                                                               frame[p].sources_used)]),
                            Nothing, Some(frame[p].execution_time), <<>>))
    /\ UNCHANGED <<active_tasks, task_lock, call, context, frame, env, client, mem, hist>>

\* repr of a list of tool names, as its pieces
ReprList(l) == [i \in 1..Len(l) |-> "'" \o l[i] \o "'"]

\* f"Agent does not have access to required tools: {required_tools}"
AccessDenied(required_tools) ==
    <<"Agent does not have access to required tools: ">> \o ReprList(required_tools)

\* the handlers that call llm_manager.completion
UsesProvider(task_type) == task_type \notin {"data_analysis", "code_review"}

\* tool_registry = UniversalToolRegistry(self.db); await tool_registry.initialize()
ToolInit(p) ==
    /\ pc[p] = "tool_init"
    /\ \/ /\ toolTable' = AddMissing(toolTable, BuiltinTools)
          /\ Goto(p, "tool_access")
          /\ UNCHANGED frame
       \/ /\ Raise(p, DbError)
          /\ UNCHANGED toolTable
    /\ UNCHANGED <<active_tasks, task_lock, call, context, outcome, now, client, mem, hist>>

\* initialize(), statement by statement.  _register_tool_if_not_exists of the
\* next built-in tool: `await self.db_session.execute(select ...)`; a tool that
\* is found is left alone, else the commit is still to come
ToolInitSelect(p) ==
    LET tool_name == BuiltinNames[frame[p].registered + 1]
        existing_tool == get_tool_any(toolTable, tool_name)
    IN
    /\ pc[p] = "tool_init"
    /\ IF existing_tool # Nothing
       THEN /\ frame' = [frame EXCEPT ![p].registered = @ + 1]
            /\ Goto(p, IF frame[p].registered + 1 = Len(BuiltinNames)
                       THEN "tool_access" ELSE "tool_init")
       ELSE /\ Goto(p, "tool_commit")
            /\ UNCHANGED frame
    /\ UNCHANGED <<active_tasks, task_lock, call, context, outcome, env, client, mem, hist>>

\* self.db_session.add(tool); await self.db_session.commit(): the row is
\* inserted, unless the table has got a row of that name since the select: the
\* unique constraint makes the commit raise
ToolInitCommit(p) ==
    LET tool_name == BuiltinNames[frame[p].registered + 1] IN
    /\ pc[p] = "tool_commit"
    /\ IF tool_name \in DOMAIN toolTable
       THEN /\ Raise(p, IntegrityError)
            /\ UNCHANGED toolTable
       ELSE /\ toolTable' = Put(toolTable, tool_name, BuiltinTools[tool_name])
            /\ frame' = [frame EXCEPT ![p].registered = @ + 1]
            /\ Goto(p, IF frame[p].registered + 1 = Len(BuiltinNames)
                       THEN "tool_access" ELSE "tool_init")
    /\ UNCHANGED <<active_tasks, task_lock, call, context, outcome, now, client, mem, hist>>

\* a loop that takes every required tool
AccessibleAll(table, required_tools, agent_type) == required_tools

\* the tools of required_tools the registry grants; the engine always asks
\* with security_clearance="public"
Accessible(table, required_tools, agent_type) ==
    SelectSeq(required_tools,
              LAMBDA n : check_tool_access(table, n, agent_type, "public"))

\* a gate that refuses nothing
RefusedNever(accessible_tools) == FALSE

\* `if not accessible_tools:` the task is refused
Refused(accessible_tools) == accessible_tools = <<>>

\* the loop over required_tools and the gate behind it; a granted task goes to
\* its handler, which may send a request to the completion provider
ToolAccess(p) ==
    LET required_tools == _determine_required_tools(call[p].task_type)
        accessible_tools == Accessible(toolTable, required_tools, call[p].agent_type)
    IN
    /\ pc[p] = "tool_access"
    /\ \/ /\ Refused(accessible_tools)
          /\ frame' = [frame EXCEPT ![p].required_tools = required_tools,
                                     ![p].accessible_tools = accessible_tools]
          /\ Return(p, TaskResult(context[p].task_id, FAILED, Nothing,
                                  Some(AccessDenied(required_tools)),
                                  Some(ElapsedMs(frame[p].start_time)), <<>>))
       \/ /\ ~Refused(accessible_tools)
          /\ frame' = [frame EXCEPT ![p].required_tools = required_tools,
                                     ![p].accessible_tools = accessible_tools,
                                     ![p].handler = call[p].task_type,
                                     ![p].provider_calls =
                                         IF UsesProvider(call[p].task_type)
                                         THEN @ + 1 ELSE @]
          /\ Goto(p, "handler")
          /\ UNCHANGED outcome
       \/ /\ Raise(p, DbError)
          /\ UNCHANGED outcome
    /\ UNCHANGED <<active_tasks, task_lock, call, context, env, client, mem, hist>>

\* output_data of the handler of task_type, given the provider's answer
HandlerOutput(task_type, tools, response) ==
    CASE task_type = "data_analysis" ->
           [task_type |-> "data_analysis", input_processed |-> TRUE,
            tools_used |-> tools, response |-> ""]
      [] task_type = "content_generation" ->
           [task_type |-> "content_generation", input_processed |-> FALSE,
            tools_used |-> <<>>, response |-> response]
      [] task_type = "code_review" ->
           [task_type |-> "code_review", input_processed |-> FALSE,
            tools_used |-> <<>>, response |-> ""]
      [] OTHER ->
           [task_type |-> task_type, input_processed |-> FALSE,
            tools_used |-> <<>>, response |-> response]

\* what a handler without a provider raises on input_data it cannot read:
\* len(input_data.get("data", [])) or `"print(" in code` on a number
HandlerErrors == {Exc("TypeError", "object of type 'int' has no len()")}

\* the handler returns (or it raises, or its provider call raises);
\* return TaskResult(COMPLETED, ...)
ToolHandler(p) ==
    /\ pc[p] = "handler"
    /\ \/ \E r \in Responses :
            /\ Return(p, TaskResult(context[p].task_id, COMPLETED,
                                    Some(HandlerOutput(frame[p].handler,
                                                       frame[p].accessible_tools, r)),
                                    Nothing, Some(ElapsedMs(frame[p].start_time)),
                                    frame[p].accessible_tools))
            /\ UNCHANGED frame
       \/ \E e \in ProviderErrors :
            /\ UsesProvider(frame[p].handler)
            /\ Raise(p, e)
            /\ UNCHANGED outcome
       \/ \E e \in HandlerErrors :
            /\ ~UsesProvider(frame[p].handler)
            /\ Raise(p, e)
            /\ UNCHANGED outcome
    /\ UNCHANGED <<active_tasks, task_lock, call, context, env, client, mem, hist>>

(* ----------------------------- the clock ------------------------------- *)
Tick ==
    /\ now < MaxTime
    /\ now' = now + 1
    /\ UNCHANGED <<active_tasks, task_lock, pc, call, context, frame, outcome, toolTable,
                   client, mem, hist>>

(* ----------------------------- specifications -------------------------- *)
\* one step of the execute_* call p, whatever its arguments
Step(p) ==
    \/ RegisterEnter(p) \/ RegisterLeave(p) \/ RegisterFail(p)
    \/ ChatManagers(p) \/ ChatHistory(p) \/ ChatLLM(p)
    \/ ChatStore(p) \/ ChatStoreResponse(p) \/ ChatSaveTurn(p) \/ ChatReturn(p)
    \/ ToolInit(p) \/ ToolAccess(p) \/ ToolHandler(p)
    \/ Except(p) \/ UnregisterEnter(p) \/ UnregisterLeave(p)

\* one step of the caller of cancel_task / get_task_status
ClientStep ==
    \/ \E t \in TaskIds : ClientEnter("cancel_task", t)
    \/ \E t \in TaskIds : ClientEnter("get_task_status", t)
    \/ CancelLeave
    \/ StatusLeave

\* Spec: NumCalls concurrent calls on one engine, with a client cancelling and
\* asking for the status.  The calls are chat tasks without retrieval and tool
\* tasks of a granted and of a refused task type; the table holds all the rows.
FullTable == AddMissing(CustomTools, BuiltinTools)
ConcurrentCalls ==
    [op : {"chat"}, use_rag : {FALSE}, task_type : {""}, agent_type : {"custom"},
     message : {Hello}, agent_id : {AgentId}, session_id : {SessionId},
     security_clearance : {PUBLIC}]
    \cup [op : {"tool"}, use_rag : {FALSE}, task_type : {"summarize", "web_scraping"},
          agent_type : {"custom"}, message : {""}, agent_id : {AgentId},
          session_id : {SessionId}, security_clearance : {PUBLIC}]

Init == InitWith({FullTable})

Next ==
    \/ \E p \in Calls, c \in ConcurrentCalls, t \in TaskIds : Start(p, c, t)
    \/ \E p \in Calls : Step(p)
    \/ ClientStep

Spec == Init /\ [][Next]_vars

\* SpecSolo: one call with any arguments, against either table, with the clock
\* running and the client cancelling.
InitSolo == InitWith(ToolTables)

NextSolo ==
    \/ \E c \in ChatCalls \cup ToolCalls, t \in TaskIds : Start(1, c, t)
    \/ Step(1)
    \/ ChatRag(1)
    \/ ClientStep
    \/ Tick

SpecSolo == InitSolo /\ [][NextSolo]_vars

(* ----------------------------- the access check ------------------------ *)
\* the rows a custom tool can be registered with
CustomRows ==
    {Tool(is_public, level, allowed) :
        is_public \in BOOLEAN, level \in ToolSecurityLevel, allowed \in {{}, {"custom"}}}
CustomNames == {"my_tool", "other_tool"}

\* register_custom_tool: the row is added; tool_name is unique in the table
register_custom_tool(tool_name, row) ==
    /\ tool_name \notin DOMAIN toolTable
    /\ toolTable' = Put(toolTable, tool_name, row)
    /\ UNCHANGED <<active_tasks, task_lock, pc, call, context, frame, outcome, now, client,
                   agent_memories, session_turns, access, ctx, hist>>

\* a caller asks check_tool_access and gets its answer
CheckToolAccess(tool_name, agent_type, security_clearance) ==
    /\ access' = [tool_name |-> tool_name, agent_type |-> agent_type,
                  security_clearance |-> security_clearance,
                  ret |-> check_tool_access(toolTable, tool_name, agent_type,
                                            security_clearance)]
    /\ UNCHANGED <<active_tasks, task_lock, pc, call, context, frame, outcome, env, client,
                   agent_memories, session_turns, ctx, hist>>

\* SpecAccess: custom tools of every kind are registered and the access check is
\* asked for every tool name, agent type and clearance.
InitAccess == InitWith({EmptyTable})

NextAccess ==
    \/ \E n \in CustomNames, row \in CustomRows : register_custom_tool(n, row)
    \/ \E n \in CustomNames \cup {"unknown_tool"}, a \in AgentTypes,
          c \in ToolSecurityLevel : CheckToolAccess(n, a, c)

SpecAccess == InitAccess /\ [][NextAccess]_vars

(* ----------------------------- the tool listing ------------------------ *)
\* a caller asks get_available_tools
GetAvailableTools(agent_type, security_clearance) ==
    /\ ~listing.asked
    /\ listing' = [asked |-> TRUE, agent_type |-> agent_type,
                   security_clearance |-> security_clearance,
                   ret |-> get_available_tools(toolTable, agent_type, security_clearance)]
    /\ UNCHANGED <<active_tasks, task_lock, pc, call, context, frame, outcome, env, client,
                   agent_memories, session_turns, access, store_up, context_items,
                   relevant, conversation, cleared, handles, hist>>

\* the caller has its answer
ListingReturned ==
    /\ listing.asked
    /\ listing' = NoListing
    /\ UNCHANGED <<active_tasks, task_lock, pc, call, context, frame, outcome, env, client,
                   agent_memories, session_turns, access, store_up, context_items,
                   relevant, conversation, cleared, handles, hist>>

\* SpecListing: custom tools of every kind are registered and the listing is
\* asked for every agent type and clearance.
InitListing == InitWith({EmptyTable})

NextListing ==
    \/ \E n \in CustomNames, row \in CustomRows :
          ~listing.asked /\ register_custom_tool(n, row)
    \/ \E a \in AgentTypes, c \in ToolSecurityLevel : GetAvailableTools(a, c)
    \/ ListingReturned

SpecListing == InitListing /\ [][NextListing]_vars

(* ----------------------------- a session ------------------------------- *)
\* the most messages added to one memory: more than the window holds
MaxMessages == 2 * k + 2
\* the most messages a memory holds before the chat tasks: more than the prompt takes
MaxEarlier == HistoryLimit + 2

\* the message an earlier conversation adds next: user and agent take turns
EarlierMessage(memory) ==
    LET n == Len(memory.messages) + 1 IN
    IF n % 2 = 1 THEN HumanMessage("earlier " \o ToString(n))
    ELSE AIMessage("earlier " \o ToString(n))

\* agent_memory.add_message(message) on the memory of the session, before the
\* chat tasks are run, while the memory holds less than `most` messages
AddMessage(agent_id, session_id, most) ==
    LET key == MemoryKey(agent_id, session_id)
        memories == get_agent_memory(agent_memories, agent_id, session_id)
    IN
    /\ \A p \in Calls : pc[p] = "idle"
    /\ Len(memories[key].messages) < most
    /\ agent_memories' =
           [memories EXCEPT ![key] = add_message(@, EarlierMessage(memories[key]))]
    /\ context_items' =
           store_context_item(context_items,
                              MessageItem(memories[key], context_items,
                                          EarlierMessage(memories[key]), now), store_up)
    /\ UNCHANGED <<active_tasks, task_lock, pc, call, context, frame, outcome, env, client,
                   session_turns, access, store_up, asks, hist>>

\* the chat calls of one session: call p brings its own message
SessionCalls(p) ==
    [op : {"chat"}, use_rag : BOOLEAN, task_type : {""}, agent_type : {"custom"},
     message : {"message " \o ToString(p)}, agent_id : {AgentId},
     session_id : {SessionId}, security_clearance : {PUBLIC}]

\* a call made when every call made before it has returned completed: the tasks
\* run back to back
StartAlone(p, c, task_id) ==
    /\ \A q \in Calls \ {p} :
          \/ pc[q] = "idle"
          \/ pc[q] = "done" /\ outcome[q].kind = "TaskResult"
                            /\ outcome[q].status = COMPLETED
    /\ Start(p, c, task_id)

\* one step of the chat call p
ChatStep(p) ==
    \/ RegisterEnter(p) \/ RegisterLeave(p) \/ RegisterFail(p)
    \/ ChatManagers(p) \/ ChatRag(p) \/ ChatHistory(p) \/ ChatLLM(p)
    \/ ChatStore(p) \/ ChatStoreResponse(p) \/ ChatSaveTurn(p) \/ ChatReturn(p)
    \/ Except(p) \/ UnregisterEnter(p) \/ UnregisterLeave(p)

\* SpecSession: a memory that holds up to MaxEarlier messages of an earlier
\* conversation, then chat tasks of that agent and session, one after the other,
\* call p with task id p.
InitSession == InitWith({FullTable})

NextSession ==
    \/ AddMessage(AgentId, SessionId, MaxEarlier)
    \/ \E p \in Calls : \E c \in SessionCalls(p) : StartAlone(p, c, p)
    \/ \E p \in Calls : ChatStep(p)

SpecSession == InitSession /\ [][NextSession]_vars

\* SpecMemory: messages are added to the memories of two sessions of one agent,
\* one session after the other, while the clock runs.
OtherSessionId == "s2"
InitMemory == InitWith({FullTable})

\* the memory of the session holds `most` messages
Filled(agent_id, session_id, most) ==
    LET key == MemoryKey(agent_id, session_id) IN
    key \in DOMAIN agent_memories /\ Len(agent_memories[key].messages) = most

NextMemory ==
    \/ AddMessage(AgentId, SessionId, MaxMessages)
    \/ /\ Filled(AgentId, SessionId, MaxMessages)
       /\ AddMessage(AgentId, OtherSessionId, MaxMessages)
    \/ Tick

SpecMemory == InitMemory /\ [][NextMemory]_vars

(* ----------------------------- clearances ------------------------------ *)
\* the tool tasks of agents of either type holding any clearance
ClearanceCalls ==
    [op : {"tool"}, use_rag : {FALSE}, task_type : TaskTypes, agent_type : AgentTypes,
     message : {""}, agent_id : {AgentId}, session_id : {SessionId},
     security_clearance : ToolSecurityLevel]

\* one step of the tool call p
ToolStep(p) ==
    \/ RegisterEnter(p) \/ RegisterLeave(p) \/ RegisterFail(p)
    \/ ToolInit(p) \/ ToolAccess(p) \/ ToolHandler(p)
    \/ Except(p) \/ UnregisterEnter(p) \/ UnregisterLeave(p)

\* SpecClearance: tool tasks, one after the other, of agents of any clearance,
\* against either table.
InitClearance == InitWith(ToolTables)

NextClearance ==
    \/ \E p \in Calls, c \in ClearanceCalls : StartAlone(p, c, p)
    \/ \E p \in Calls : ToolStep(p)

SpecClearance == InitClearance /\ [][NextClearance]_vars

(* ----------------------------- concurrent initialize ------------------- *)
\* the tool tasks that initialize the registry side by side
InitCalls ==
    [op : {"tool"}, use_rag : {FALSE}, task_type : {"summarize", "data_analysis"},
     agent_type : {"custom"}, message : {""}, agent_id : {AgentId},
     session_id : {SessionId}, security_clearance : {PUBLIC}]

\* one step of the tool call p, its initialize taken statement by statement; on
\* the built-in table no call reaches a handler
InitStep(p) ==
    \/ RegisterEnter(p) \/ RegisterLeave(p) \/ RegisterFail(p)
    \/ ToolInitSelect(p) \/ ToolInitCommit(p) \/ ToolAccess(p)
    \/ Except(p) \/ UnregisterEnter(p) \/ UnregisterLeave(p)

\* SpecInit: concurrent tool tasks, call p with task id p, each with a registry
\* of its own, against a table that is empty at first; the database answers.
InitInit == InitWith({EmptyTable})

NextInit ==
    \/ \E p \in Calls : \E c \in InitCalls : Start(p, c, p)
    \/ \E p \in Calls : InitStep(p)

SpecInit == InitInit /\ [][NextInit]_vars

(* ----------------------------- progress -------------------------------- *)
\* the calls that run side by side: call 1 is a chat task, the others are tool
\* tasks of a granted and of a refused task type
LiveCalls(p) ==
    IF p = 1 THEN {c \in SessionCalls(p) : ~c.use_rag}
    ELSE [op : {"tool"}, use_rag : {FALSE}, task_type : {"summarize", "web_scraping"},
          agent_type : {"custom"}, message : {""}, agent_id : {AgentId},
          session_id : {SessionId}, security_clearance : {PUBLIC}]

\* the client calls cancel_task / get_task_status: `async with self._task_lock`
\* suspends it until the lock is free
ClientWait(op, task_id) ==
    /\ client.pc = "idle"
    /\ client' = [pc |-> "waiting", task_id |-> task_id, ret |-> op]
    /\ UNCHANGED <<active_tasks, task_lock, pc, call, context, frame, outcome, env, mem,
                   hist>>

\* the waiting client is given the lock
ClientAcquire ==
    /\ client.pc = "waiting"
    /\ Acquire(Client)
    /\ client' = [client EXCEPT !.pc = client.ret, !.ret = ""]
    /\ UNCHANGED <<active_tasks, pc, call, context, frame, outcome, env, mem, hist>>

\* one step of the call p, chat or tool
LiveStep(p) ==
    \/ RegisterEnter(p) \/ RegisterLeave(p) \/ RegisterFail(p)
    \/ ChatManagers(p) \/ ChatHistory(p) \/ ChatLLM(p)
    \/ ChatStore(p) \/ ChatStoreResponse(p) \/ ChatSaveTurn(p) \/ ChatReturn(p)
    \/ ToolInit(p) \/ ToolAccess(p) \/ ToolHandler(p)
    \/ Except(p) \/ UnregisterEnter(p) \/ UnregisterLeave(p)

\* SpecLive: a chat task and tool tasks side by side, call p with task id p,
\* and a client that cancels and asks for the status again and again.  Every
\* coroutine that can run is run in the end (the event loop), every external
\* call returns or raises, and a coroutine waiting for the lock gets it in the
\* end (asyncio.Lock wakes its waiters first come, first served).
InitLive == InitWith({FullTable})

NextLive ==
    \/ \E p \in Calls : \E c \in LiveCalls(p) : Start(p, c, p)
    \/ \E p \in Calls : LiveStep(p)
    \/ \E op \in {"cancel_task", "get_task_status"}, t \in TaskIds : ClientWait(op, t)
    \/ ClientAcquire
    \/ CancelLeave
    \/ StatusLeave

\* a coroutine that can run again and again is run: a call at any of its
\* steps, the client once it has called an operation
Fairness ==
    /\ \A p \in Calls : SF_vars(LiveStep(p))
    /\ SF_vars(ClientAcquire \/ CancelLeave \/ StatusLeave)

SpecLive == InitLive /\ [][NextLive]_vars /\ Fairness

(* ----------------------------- a failing store ------------------------- *)
\* the shared store stops answering, or answers again
StoreToggle ==
    /\ store_up' = ~store_up
    /\ UNCHANGED <<active_tasks, task_lock, pc, call, context, frame, outcome, env, client,
                   agent_memories, session_turns, access, context_items, asks, hist>>

\* SpecStore: chat tasks of one agent and session, one after the other, call p
\* with task id p, against a store that fails and recovers at any moment.
InitStore == InitWith({FullTable})

NextStore ==
    \/ \E p \in Calls : \E c \in SessionCalls(p) : StartAlone(p, c, p)
    \/ \E p \in Calls : ChatStep(p)
    \/ StoreToggle

SpecStore == InitStore /\ [][NextStore]_vars

(* ----------------------------- a cleared session ----------------------- *)
\* await agent_memory.clear_session() on the memory of the session, between two
\* chat tasks
ClearSession(agent_id, session_id) ==
    LET key == MemoryKey(agent_id, session_id)
        memories == get_agent_memory(agent_memories, agent_id, session_id)
    IN
    /\ \A p \in Calls : pc[p] \in {"idle", "done"}
    /\ memories[key].messages # <<>>
    /\ agent_memories' = [memories EXCEPT ![key] = clear_session(@)]
    /\ cleared' = cleared \cup
                     {<<key, memories[key].messages[i].content>> :
                         i \in DOMAIN memories[key].messages}
    /\ UNCHANGED <<active_tasks, task_lock, pc, call, context, frame, outcome, env, client,
                   session_turns, access, store_up, context_items, relevant, conversation,
                   more, hist>>

\* SpecClear: chat tasks of one agent and session, one after the other, with
\* and without retrieval, after messages of an earlier conversation that left
\* no turn in the store; between two tasks the session may be cleared.
InitClear == InitWith({FullTable})

NextClear ==
    \/ cleared = {} /\ AddMessage(AgentId, SessionId, MaxEarlier)
    \/ \E p \in Calls : \E c \in SessionCalls(p) : StartAlone(p, c, p)
    \/ \E p \in Calls : ChatStep(p)
    \/ ClearSession(AgentId, SessionId)

SpecClear == InitClear /\ [][NextClear]_vars

(* ----------------------------- the memory handles --------------------- *)
\* agent ids and session ids the memories are asked for: an agent id holding
\* the separator of the key, and no session id
AgentIds == {AgentId, AgentId \o ":" \o SessionId}
SessionIds == {"", SessionId, OtherSessionId}

\* context_manager.get_agent_memory(agent_id, session_id): the caller keeps the
\* memory it is given
GetAgentMemory(agent_id, session_id) ==
    /\ <<agent_id, session_id>> \notin DOMAIN handles
    /\ agent_memories' = get_agent_memory(agent_memories, agent_id, session_id)
    /\ handles' = Put(handles, <<agent_id, session_id>>, MemoryKey(agent_id, session_id))
    /\ UNCHANGED <<active_tasks, task_lock, pc, call, context, frame, outcome, env, client,
                   session_turns, access, store_up, context_items, relevant, conversation,
                   cleared, rest, hist>>

\* SpecKeys: memories are asked for pairs of AgentIds and SessionIds, and a
\* message is added to each.
InitKeys == InitWith({FullTable})

NextKeys ==
    \/ \E agent_id \in AgentIds : \E session_id \in SessionIds :
          GetAgentMemory(agent_id, session_id)
    \/ \E x \in DOMAIN handles : AddMessage(x[1], x[2], 1)

SpecKeys == InitKeys /\ [][NextKeys]_vars

(* ----------------------------- concurrent chats ------------------------ *)
\* SpecPair: chat tasks of one agent and session running concurrently, call p
\* with its own message and task id p.
InitPair == InitWith({FullTable})

NextPair ==
    \/ \E p \in Calls : \E c \in SessionCalls(p) : Start(p, c, p)
    \/ \E p \in Calls : ChatStep(p)

SpecPair == InitPair /\ [][NextPair]_vars

(* ----------------------------- the stored history --------------------- *)
\* the agent that shares the session id, and the most messages put in a buffer
OtherAgentId == "agent2"
MaxBuffered == 2
\* the most turns stored for a session: more than get_session_history takes
MaxTurns == SessionHistoryLimit + 2

\* the stored turns of the session, newest first
Turns(session_id) ==
    IF session_id \in DOMAIN session_turns THEN session_turns[session_id] ELSE <<>>

\* agent_memory.save_conversation_turn(user_message, agent_response, context_used)
\* on the memory of the agent and the session, as a process did that has gone
\* since: the buffer of this process does not hold the messages
SaveTurn(agent_id, session_id, context_used) ==
    LET key == MemoryKey(agent_id, session_id)
        memories == get_agent_memory(agent_memories, agent_id, session_id)
        n == ToString(Len(Turns(session_id)) + 1)
    IN
    /\ ~conversation.asked
    /\ Len(Turns(session_id)) < MaxTurns
    /\ agent_memories' = memories
    /\ session_turns' =
           save_conversation_turn(memories[key], session_turns,
                                  agent_id \o " asks " \o n, agent_id \o " is told " \o n,
                                  context_used, store_up)
    /\ UNCHANGED <<active_tasks, task_lock, pc, call, context, frame, outcome, env, client,
                   access, ctx, hist>>

\* await agent_memory.get_conversation_history() on the memory of the agent and
\* the session
GetConversationHistory(agent_id, session_id) ==
    LET key == MemoryKey(agent_id, session_id)
        memories == get_agent_memory(agent_memories, agent_id, session_id)
    IN
    /\ ~conversation.asked
    /\ agent_memories' = memories
    /\ conversation' =
           [asked |-> TRUE, agent_id |-> agent_id, session_id |-> session_id,
            ret |-> get_conversation_history(memories[key], session_turns, store_up)]
    /\ UNCHANGED <<active_tasks, task_lock, pc, call, context, frame, outcome, env, client,
                   session_turns, access, store_up, context_items, relevant, extra, hist>>

\* the caller has its answer
HistoryReturned ==
    /\ conversation.asked
    /\ conversation' = NoConversation
    /\ UNCHANGED <<active_tasks, task_lock, pc, call, context, frame, outcome, env, client,
                   agent_memories, session_turns, access, store_up, context_items,
                   relevant, extra, hist>>

\* SpecHistory: turns of one session id are stored, by the agent and, before
\* it, by another agent using the same session id; at most one turn carries the
\* sources of a retrieval; messages are added to the buffers of this process;
\* the store fails and recovers; the history is asked for either agent.
InitHistory == InitWith({FullTable})

NextHistory ==
    \/ \E context_used \in {<<>>, <<"chunk1">>} :
          /\ \A i \in DOMAIN Turns(SessionId) : Turns(SessionId)[i].context_used = <<>>
          /\ SaveTurn(AgentId, SessionId, context_used)
    \/ /\ Turns(SessionId) = <<>>
       /\ SaveTurn(OtherAgentId, SessionId, <<>>)
    \/ \E agent_id \in {AgentId, OtherAgentId} :
          /\ ~conversation.asked
          /\ AddMessage(agent_id, SessionId, MaxBuffered)
    \/ ~conversation.asked /\ StoreToggle
    \/ \E agent_id \in {AgentId, OtherAgentId} : GetConversationHistory(agent_id, SessionId)
    \/ HistoryReturned

SpecHistory == InitHistory /\ [][NextHistory]_vars

(* ----------------------------- the context log ------------------------ *)
\* the most context items stored, what they say and what is asked
MaxItems == 3
Contents == {"The cat sat", "concatenate strings", "cat and dog"}
Queries == {"Cat", "dog cat"}

\* the stored items of the agent, in the order they were stored
AgentItems(agent_id) ==
    SelectSeq(context_items, LAMBDA item : item.agent_id = agent_id)

\* the orders a set of n members can be listed in
Orders(n) == {o \in [1..n -> 1..n] : \A i, j \in 1..n : i # j => o[i] # o[j]}

\* await agent_memory.add_context(content) on the memory of the agent
AddContext(agent_id, session_id, content) ==
    LET key == MemoryKey(agent_id, session_id)
        memories == get_agent_memory(agent_memories, agent_id, session_id)
    IN
    /\ ~relevant.asked
    /\ Len(context_items) < MaxItems
    /\ agent_memories' = memories
    /\ context_items' =
           store_context_item(context_items,
                              ContextItem(Len(context_items) + 1, "document", content, now,
                                          memories[key].agent_id,
                                          memories[key].session_id),
                              store_up)
    /\ UNCHANGED <<active_tasks, task_lock, pc, call, context, frame, outcome, env, client,
                   session_turns, access, store_up, asks, hist>>

\* await agent_memory.get_relevant_context(query, limit) on the memory of the
\* agent; the index of the agent is a set, which lists its members in any order
GetRelevantContext(agent_id, session_id, query, limit) ==
    LET memories == get_agent_memory(agent_memories, agent_id, session_id)
        items == AgentItems(agent_id)
    IN
    /\ ~relevant.asked
    /\ agent_memories' = memories
    /\ \E o \in Orders(Len(items)) :
          relevant' =
              [asked |-> TRUE, agent_id |-> agent_id, query |-> query, limit |-> limit,
               ret |-> get_relevant_context([i \in 1..Len(items) |-> items[o[i]]],
                                            query, limit, store_up)]
    /\ UNCHANGED <<active_tasks, task_lock, pc, call, context, frame, outcome, env, client,
                   session_turns, access, store_up, context_items, conversation, extra,
                   hist>>

\* the caller has its answer
RelevantReturned ==
    /\ relevant.asked
    /\ relevant' = NoRelevant
    /\ UNCHANGED <<active_tasks, task_lock, pc, call, context, frame, outcome, env, client,
                   agent_memories, session_turns, access, store_up, context_items,
                   conversation, extra, hist>>

\* SpecContext: context is added for two agents while the clock runs and the
\* store fails and recovers, and the relevant context of the agent is asked.
InitContext == InitWith({FullTable})

NextContext ==
    \/ \E agent_id \in {AgentId, OtherAgentId}, content \in Contents :
          AddContext(agent_id, SessionId, content)
    \/ \E query \in Queries, limit \in 1..2 :
          GetRelevantContext(AgentId, SessionId, query, limit)
    \/ RelevantReturned
    \/ ~relevant.asked /\ StoreToggle
    \/ ~relevant.asked /\ Tick

SpecContext == InitContext /\ [][NextContext]_vars

(* ----------------------------- properties ------------------------------ *)
Done(p) == pc[p] = "done"
Failed(p) == outcome[p].kind = "TaskResult" /\ outcome[p].status = FAILED
Completed(p) == outcome[p].kind = "TaskResult" /\ outcome[p].status = COMPLETED
\* the exception the try body of p raised, if any
Threw(p, errors) == frame[p].exc # Nothing /\ frame[p].exc[1] \in errors
\* p went through _register_task and has not finished _unregister_task
InFlight(p) ==
    /\ pc[p] \in {"managers", "rag", "history", "llm", "store", "store_response",
                   "save_turn", "estimate", "tool_init", "tool_commit", "tool_access",
                   "handler",
                   "except", "finally", "unregister_cs"}
    /\ ~Threw(p, {RegisterError})
\* no other call was given the task_id of p
Unique(p) == \A q \in Calls \ {p} : context[q].task_id # context[p].task_id
\* the registry holds the context of p
Stored(p) ==
    /\ context[p].task_id \in DOMAIN active_tasks
    /\ active_tasks[context[p].task_id] = p

\* C1: an execute_chat_task / execute_tool_task call that has ended has given its
\* caller a TaskResult, whatever its arguments and whichever collaborator failed
\* (registration and registry initialization included): no exception leaves it.
C1_NeverRaises == \A p \in Calls : Done(p) => outcome[p].kind = "TaskResult"

\* a tool task whose registry initialization failed has ended with a failed result
C1_Witness ==
    \E p \in Calls : Done(p) /\ Failed(p) /\ call[p].op = "tool" /\ Threw(p, {DbError})

\* C2: on every exit path the cleanup runs _unregister_task exactly once, and at
\* the step that returns, the task_id of the call is not a key of active_tasks.
C2_UnregisterOnce ==
    [][\A p \in Calls :
          /\ (~Done(p) /\ pc'[p] = "done") =>
                /\ unregister_runs'[p] = 1
                /\ context'[p].task_id \notin DOMAIN active_tasks'
          /\ Done(p) => unregister_runs'[p] = 1]_vars

\* a refused tool task (the return inside try) has ended with one cleanup run
C2_Witness ==
    \E p \in Calls :
        /\ Done(p) /\ Failed(p) /\ frame[p].exc = Nothing
        /\ unregister_runs[p] = 1

\* C3: the keys of active_tasks are exactly the task ids of the calls in flight,
\* and the stored context is the one of a call in flight.
C3_RegistryIsInFlight ==
    /\ DOMAIN active_tasks = {context[p].task_id : p \in {q \in Calls : InFlight(q)}}
    /\ \A t \in DOMAIN active_tasks : InFlight(active_tasks[t])

\* C4: no task is both cancelled (cancel_task removed it and returned True) and
\* completed or failed (its call returned such a TaskResult).
C4_TerminalUnique ==
    \A p \in Calls : ~(p \in cancelled /\ Done(p) /\ (Completed(p) \/ Failed(p)))

\* C5 as stated: a task_id that was unregistered or cancelled is never a key of
\* active_tasks again (get_task_status never reports it running again).
C5_NeverRunningAgain ==
    [][\A t \in ended : t \notin DOMAIN active_tasks']_vars

\* C5 amended: a task_id becomes a key of active_tasks only by the _register_task
\* of a call that was given it, and once the context of a call was unregistered
\* or cancelled no step stores that context again.
C5_MonotonicPerCall ==
    [][/\ \A t \in TaskIds :
            (t \notin DOMAIN active_tasks /\ t \in DOMAIN active_tasks') =>
                \E p \in Calls : /\ pc[p] = "register_cs"
                                  /\ pc'[p] # "register_cs"
                                  /\ context[p].task_id = t
                                  /\ active_tasks'[t] = p
       /\ \A p \in Calls :
            (p \in cancelled \/ unregister_runs[p] > 0) =>
                ~(Stored(p)' /\ ~Stored(p))]_vars

\* a cancelled call has gone through its except clause and ended
C5_Witness ==
    \E p \in Calls : p \in cancelled /\ Done(p) /\ Failed(p) /\ frame[p].exc # Nothing

\* C6: when the registry grants none of the tools the task type requires, the tool
\* task returns failed with the access message naming every required tool, no
\* handler was dispatched and no request went to the completion provider.
C6_AccessGate ==
    \A p \in Calls :
        LET required_tools == _determine_required_tools(call[p].task_type) IN
        ( /\ call[p].op = "tool"
          /\ pc[p] \in {"handler", "except", "finally", "unregister_cs", "done"}
          /\ ~Threw(p, {RegisterError, DbError})
          /\ \A n \in Range(required_tools) :
                ~check_tool_access(toolTable, n, call[p].agent_type, "public") )
        => /\ pc[p] \in {"finally", "unregister_cs", "done"}
           /\ Failed(p)
           /\ Head(outcome[p].error_message[1]) =
                  "Agent does not have access to required tools: "
           /\ \A n \in Range(required_tools) :
                  ("'" \o n \o "'") \in Range(outcome[p].error_message[1])
           /\ frame[p].handler = ""
           /\ frame[p].provider_calls = 0

\* a data_analysis task was refused against a table without its three tools
C6_Witness ==
    \E p \in Calls :
        /\ Done(p) /\ Failed(p) /\ call[p].task_type = "data_analysis"
        /\ frame[p].required_tools # <<>> /\ frame[p].accessible_tools = <<>>
        /\ Len(outcome[p].error_message[1]) = 4

\* C7: when the completion provider raises with message M in a chat task or in a
\* content_generation or generic tool task, the call returns failed with
\* error_message M, an execution_time_ms >= 0, and the task is unregistered.
C7_ProviderFailure ==
    \A p \in Calls :
        (Done(p) /\ Threw(p, ProviderErrors)) =>
            /\ Failed(p)
            /\ outcome[p].error_message = Some(<<frame[p].exc[1].msg>>)
            /\ outcome[p].execution_time_ms # Nothing
            /\ outcome[p].execution_time_ms[1] >= 0
            /\ outcome[p].output_data = Nothing
            /\ unregister_runs[p] = 1
            /\ ~Stored(p)

\* a generic tool task whose provider call failed after the clock had advanced
C7_Witness ==
    \E p \in Calls :
        /\ Done(p) /\ Threw(p, ProviderErrors) /\ call[p].task_type = "summarize"
        /\ outcome[p].execution_time_ms[1] > 0

\* C8: when cancel_task removed the entry of a call (the only one with its id), the
\* id is no longer reported, the call still ends with its own completed or failed
\* TaskResult, and its cleanup ran once, found the id absent and raised nothing.
C8_CancelIsRegistryOnly ==
    \A p \in Calls :
        (p \in cancelled /\ Unique(p)) =>
            /\ context[p].task_id \notin DOMAIN active_tasks
            /\ pc[p] \in {"unregister_cs", "done"} => frame[p].found = Some(FALSE)
            /\ Done(p) => /\ Completed(p) \/ Failed(p)
                          /\ unregister_runs[p] = 1

\* a cancelled call has ended with a completed result
C8_Witness ==
    \E p \in Calls : p \in cancelled /\ Unique(p) /\ Done(p) /\ Completed(p)

\* C9: while nothing was unregistered or cancelled, every call that registered has
\* its task_id in active_tasks (its own context if no other call shares the id),
\* the map has one key per registered id, and the map never shrinks.
C9_NoLostRegistration ==
    /\ [](ended = {} =>
            /\ \A p \in Calls : InFlight(p) =>
                    /\ context[p].task_id \in DOMAIN active_tasks
                    /\ Unique(p) => Stored(p)
            /\ Cardinality(DOMAIN active_tasks) =
                  Cardinality({context[p].task_id : p \in {q \in Calls : InFlight(q)}}))
    /\ [][ended' = {} =>
            Cardinality(DOMAIN active_tasks') >= Cardinality(DOMAIN active_tasks)]_vars

\* all the calls are registered under different ids and nothing was removed
C9_Witness ==
    /\ ended = {}
    /\ \A p \in Calls : InFlight(p) /\ Unique(p)
    /\ Cardinality(DOMAIN active_tasks) = NumCalls

\* the processes inside a critical section of the registry
InCS ==
    {p \in Calls : pc[p] \in {"register_cs", "unregister_cs"}}
    \cup (IF client.pc # "idle" THEN {Client} ELSE {})

\* C10: at most one process is inside a critical section of register, unregister,
\* cancel_task or get_task_status, and it is the holder of the lock: while a
\* register has stamped started_at and not yet stored the context, no other
\* process is reading or changing the registry.
C10_MutualExclusion ==
    /\ Cardinality(InCS) <= 1
    /\ task_lock = InCS

\* a register is half done while the client waits for the lock it holds
C10_Witness ==
    \E p, q \in Calls :
        /\ pc[p] = "register_cs" /\ context[p].started_at # Nothing /\ ~Stored(p)
        /\ p # q /\ pc[q] = "finally"
        /\ task_lock = {p}

(* ----------------------------- memory and prompt ----------------------- *)
\* C11: the history a memory returns holds at most 2*k messages, and they are
\* the messages added last, in the order they were added.
C11_BoundedMemory ==
    \A key \in DOMAIN agent_memories :
        LET history == get_conversation_history(agent_memories[key], session_turns, store_up)
        IN /\ Len(history) <= 2 * k
           /\ history = LastN(agent_memories[key].messages, Len(history))

\* C12: when a chat task fetches its history after another chat task of the same
\* agent and session has completed, the history holds the user message of that
\* task followed by its response, and so does the prompt sent to the provider.
C12_SecondSeesFirst ==
    [][\A p, q \in Calls :
          ( /\ p # q
            /\ Done(p) /\ Completed(p) /\ call[p].op = "chat"
            /\ context[p].agent_id = context[q].agent_id
            /\ context[p].session_id = context[q].session_id
            /\ pc[q] = "history" /\ pc'[q] = "llm" )
          => /\ \E i \in 1..(Len(frame'[q].history) - 1) :
                   /\ frame'[q].history[i] = HumanMessage(call[p].message)
                   /\ frame'[q].history[i + 1] = AIMessage(frame[p].response[1])
             /\ \E j \in 1..(Len(frame'[q].messages) - 1) :
                   /\ frame'[q].messages[j].content = call[p].message
                   /\ frame'[q].messages[j + 1].content = frame[p].response[1]]_vars

\* the second task has fetched a history that holds an earlier conversation and
\* the exchange of the first task, which used sources of the retrieval
C12_Witness ==
    \E p, q \in Calls :
        /\ p # q /\ Done(p) /\ Completed(p) /\ frame[p].sources_used # <<>>
        /\ pc[q] = "llm"
        /\ Len(frame[q].history) > 2
        /\ frame[q].history[Len(frame[q].history) - 1] = HumanMessage(call[p].message)
        /\ frame[q].history[Len(frame[q].history)] = AIMessage(frame[p].response[1])

\* the rank of a tier in public < restricted < internal < classified
Tier(level) ==
    CASE level = PUBLIC -> 1 [] level = RESTRICTED -> 2
      [] level = INTERNAL -> 3 [] level = CLASSIFIED -> 4

\* the access rule of the tiers: unknown tool no; public tool of the lowest tier
\* yes; else the clearance dominates the tier and the allow-list admits the type
TierRule(table, tool_name, agent_type, security_clearance) ==
    IF tool_name \notin DOMAIN table THEN FALSE
    ELSE LET tool == table[tool_name] IN
         IF tool.is_public /\ tool.security_level = PUBLIC THEN TRUE
         ELSE /\ Tier(security_clearance) >= Tier(tool.security_level)
              /\ tool.allowed_agent_types = {} \/ agent_type \in tool.allowed_agent_types

\* C13: every answer of check_tool_access is the one the rule of the tiers gives,
\* for the four clearances and the four tiers.
C13_AccessRule ==
    [][access' # access =>
          access'.ret = TierRule(toolTable, access'.tool_name, access'.agent_type,
                                 access'.security_clearance)]_vars

\* C14: access granted at a clearance is granted at every higher clearance.
C14_MonotonicInClearance ==
    \A n \in DOMAIN toolTable, a \in AgentTypes, c1, c2 \in ToolSecurityLevel :
        ( /\ Tier(c1) <= Tier(c2)
          /\ check_tool_access(toolTable, n, a, c1) )
        => check_tool_access(toolTable, n, a, c2)

\* output_data of the TaskResult of p
Output(p) == outcome[p].output_data[1]

\* C15: a chat task called with use_rag=False never asks the retrieval service,
\* and the output it returns has context_used false and no sources.
C15_RagOptOut ==
    \A p \in Calls :
        (call[p].op = "chat" /\ ~call[p].use_rag) =>
            /\ pc[p] # "rag"
            /\ frame[p].rag_queries = 0
            /\ Completed(p) => (~Output(p).context_used /\ Output(p).sources = <<>>)

\* a chat task without retrieval has returned completed
C15_Witness ==
    \E p \in Calls :
        /\ Done(p) /\ Completed(p) /\ call[p].op = "chat" /\ ~call[p].use_rag
        /\ frame[p].provider_calls = 1

\* C16: when the retrieval raised, the chat task goes on with no grounding: the
\* request is sent to the provider, only a provider failure fails the task, and
\* with the provider's answer the task returns completed, context_used false and
\* no sources.
C16_GroundingDegradation ==
    \A p \in Calls :
        frame[p].rag_exc # Nothing =>
            /\ frame[p].context_parts = <<>> /\ frame[p].sources_used = <<>>
            /\ frame[p].exc # Nothing => frame[p].exc[1] \in ProviderErrors
            /\ pc[p] # "history" => frame[p].provider_calls = 1
            /\ (Done(p) /\ frame[p].response # Nothing) =>
                   /\ Completed(p)
                   /\ ~Output(p).context_used /\ Output(p).sources = <<>>

\* a chat task whose retrieval returned a result without "context_used" has
\* returned completed
C16_Witness ==
    \E p \in Calls :
        /\ Done(p) /\ Completed(p)
        /\ frame[p].rag_exc = Some(Exc("KeyError", "context_used"))

\* C17 as stated: context_used of a completed chat task is true exactly when its
\* sources are not empty.
C17_ContextUsedIffSources ==
    \A p \in Calls :
        (call[p].op = "chat" /\ Completed(p)) =>
            (Output(p).context_used <=> Output(p).sources # <<>>)

\* C17 amended: context_used of a completed chat task is true exactly when the
\* retrieval gave grounding (context_parts is not empty); sources that are not
\* empty imply context_used, and sources are the ones the retrieval returned.
C17_ContextUsedIffGrounding ==
    \A p \in Calls :
        (call[p].op = "chat" /\ Completed(p)) =>
            /\ Output(p).context_used <=> frame[p].context_parts # <<>>
            /\ Output(p).sources # <<>> => Output(p).context_used
            /\ Output(p).sources = frame[p].sources_used

\* a completed chat task grounded on documents without metadata: context_used
\* with no sources
C17_Witness ==
    \E p \in Calls :
        /\ Done(p) /\ Completed(p) /\ call[p].op = "chat"
        /\ Output(p).context_used /\ Output(p).sources = <<>>

\* C18: the prompt of a chat task is the system message of the agent, then the
\* last HistoryLimit messages of the history in their order, then the grounding
\* as a system message exactly if there is grounding, then the user's message.
C18_PromptOrder ==
    \A p \in Calls :
        frame[p].messages # <<>> =>
            LET messages == frame[p].messages
                history == frame[p].history
                taken == IF Len(history) > HistoryLimit THEN HistoryLimit ELSE Len(history)
                grounded == frame[p].context_parts # <<>>
            IN
            /\ Len(messages) = 1 + taken + (IF grounded THEN 1 ELSE 0) + 1
            /\ messages[1] = [role |-> "system", content |-> SystemContent]
            /\ \A i \in 1..taken :
                  /\ messages[1 + i].content = history[Len(history) - taken + i].content
                  /\ messages[1 + i].role \in {"user", "assistant"}
            /\ grounded =>
                  messages[taken + 2] =
                      [role |-> "system", content |-> Join(frame[p].context_parts)]
            /\ messages[Len(messages)] = [role |-> "user", content |-> call[p].message]
            /\ Cardinality({i \in DOMAIN messages : messages[i].role = "system"}) =
                  IF grounded THEN 2 ELSE 1

\* a prompt built from a history longer than HistoryLimit, with grounding
C18_Witness ==
    \E p \in Calls :
        /\ Len(frame[p].history) > HistoryLimit
        /\ frame[p].context_parts # <<>>
        /\ Len(frame[p].messages) = HistoryLimit + 3

(* ----------------------------- status and cancel ----------------------- *)
\* C19: get_task_status returns running exactly when the id is a key of
\* active_tasks at that moment and None otherwise; for an id whose calls have all
\* returned it is None; at the step that ends _unregister_task the id is no key.
C19_StatusIsRegistry ==
    [][/\ (client.pc = "get_task_status" /\ client'.pc = "idle") =>
            /\ client'.ret \in {RUNNING, "None"}
            /\ client'.ret = RUNNING <=> client.task_id \in DOMAIN active_tasks
            /\ (\A p \in Calls : context[p].task_id = client.task_id => Done(p))
                  => client'.ret = "None"
       /\ \A p \in Calls :
            (pc[p] = "unregister_cs" /\ pc'[p] = "done") =>
                context[p].task_id \notin DOMAIN active_tasks']_vars

\* the status of a task id that was unregistered or cancelled was asked: None
C19_Witness ==
    /\ client.pc = "idle" /\ client.ret = "None"
    /\ client.task_id \in ended
    /\ \E p \in Calls : Done(p) /\ context[p].task_id = client.task_id

\* C20: cancel_task returns True exactly when the id was a key of active_tasks,
\* afterwards the id is no key, every other entry is as it was, and for an id
\* that is no key the registry is unchanged.
C20_CancelExact ==
    [][(client.pc = "cancel_task" /\ client'.pc = "idle") =>
          LET t == client.task_id IN
          /\ client'.ret \in {"True", "False"}
          /\ client'.ret = "True" <=> t \in DOMAIN active_tasks
          /\ t \notin DOMAIN active_tasks'
          /\ \A u \in TaskIds \ {t} :
                /\ u \in DOMAIN active_tasks <=> u \in DOMAIN active_tasks'
                /\ u \in DOMAIN active_tasks => active_tasks'[u] = active_tasks[u]
          /\ t \notin DOMAIN active_tasks => active_tasks' = active_tasks]_vars

\* a cancel returned True while the task of another id stays registered
C20_Witness ==
    /\ client.pc = "idle" /\ client.ret = "True"
    /\ client.task_id \notin DOMAIN active_tasks
    /\ \E u \in TaskIds \ {client.task_id} : u \in DOMAIN active_tasks

(* ----------------------------- the tool task --------------------------- *)
\* the required tools the registry grants the agent type of p when it is asked
\* as the engine asks
Granted(p) ==
    SelectSeq(_determine_required_tools(call[p].task_type),
              LAMBDA n : check_tool_access(toolTable, n, call[p].agent_type, PUBLIC))

\* C21: a tool task goes to its handler exactly when a required tool is granted;
\* a task whose handler did not raise returns completed, tools_used is the
\* granted required tools in the required order, and the output of
\* data_analysis has input_processed true.
C21_Dispatch ==
    \A p \in Calls :
        (call[p].op = "tool" /\ frame[p].required_tools # <<>>) =>
            /\ frame[p].handler # "" <=> Granted(p) # <<>>
            /\ (Done(p) /\ frame[p].handler # "" /\ frame[p].exc = Nothing
                    /\ outcome[p].kind = "TaskResult") =>
                  /\ Completed(p)
                  /\ outcome[p].tools_used = Granted(p)
                  /\ call[p].task_type = "data_analysis" =>
                        outcome[p].output_data[1].input_processed

\* a data_analysis task returned completed with some required tools granted and
\* another one denied
C21_Witness ==
    \E p \in Calls :
        /\ Done(p) /\ Completed(p)
        /\ call[p].task_type = "data_analysis"
        /\ outcome[p].output_data[1].input_processed
        /\ Len(outcome[p].tools_used) > 0
        /\ Len(outcome[p].tools_used) < Len(frame[p].required_tools)

(* ----------------------------- persistence ----------------------------- *)
\* the result of a chat task whose provider answered, as the engine builds it
ChatResult(p) ==
    TaskResult(context[p].task_id, COMPLETED,
               Some([response |-> frame[p].response[1],
                     sources |-> frame[p].sources_used,
                     context_used |-> frame[p].context_parts # <<>>]),
               Nothing, Some(frame[p].execution_time), <<>>)

\* C22: once the provider has answered, a chat task returns completed with the
\* provider's response, whatever the store did while the two messages and the
\* turn were saved.
C22_PersistenceDegradation ==
    \A p \in Calls :
        (Done(p) /\ frame[p].response # Nothing) =>
            /\ frame[p].exc = Nothing
            /\ outcome[p] = ChatResult(p)

\* a chat task returned completed although the store failed at each of its three
\* writes: nothing of it is in the store
C22_Witness ==
    \E p \in Calls :
        /\ Done(p) /\ Completed(p)
        /\ frame[p].store_errors = 3
        /\ context_items = <<>>
        /\ session_turns = [x \in {} |-> <<>>]
        /\ outcome[p].output_data[1].response = frame[p].response[1]

(* ----------------------------- the agent's clearance ------------------- *)
\* C23: the accessible subset of a tool task is the required tools that
\* check_tool_access grants to the agent's type and the agent's clearance; so a
\* restricted tool goes to an agent of restricted clearance and not to one of
\* public clearance.
C23_OwnClearance ==
    \A p \in Calls :
        (call[p].op = "tool" /\ frame[p].required_tools # <<>>) =>
            frame[p].accessible_tools =
                SelectSeq(frame[p].required_tools,
                          LAMBDA n : check_tool_access(toolTable, n, call[p].agent_type,
                                                       call[p].security_clearance))

(* ----------------------------- the stored history ---------------------- *)
\* the two messages of each of the given turns, in the order of the turns
TurnMessages(turns) ==
    [i \in 1..(2 * Len(turns)) |->
        IF i % 2 = 1 THEN HumanMessage(turns[(i + 1) \div 2].user_message)
        ELSE AIMessage(turns[i \div 2].agent_response)]

\* C24: get_conversation_history returns the buffer if it holds a message; else
\* the most recent 20 stored turns of the session, oldest first, each as the
\* user message and the agent response; else, the store failing, nothing.
C24_HistoryFallback ==
    conversation.asked =>
        LET memory == agent_memories[MemoryKey(conversation.agent_id,
                                               conversation.session_id)]
            recent == FirstN(Turns(memory.session_id), SessionHistoryLimit)
        IN conversation.ret =
              IF memory.messages # <<>> THEN memory.messages
              ELSE IF ~store_up THEN <<>>
              ELSE TurnMessages(Reversed(recent))

\* C30: the history returned for an agent and a session holds no message of a
\* turn stored by another agent.
C30_HistoryIsolation ==
    conversation.asked =>
        \A i \in DOMAIN conversation.ret :
            \A j \in DOMAIN Turns(conversation.session_id) :
                LET turn == Turns(conversation.session_id)[j] IN
                conversation.ret[i].content \in {turn.user_message, turn.agent_response}
                    => turn.metadata.agent_id = conversation.agent_id

(* ----------------------------- the result ------------------------------ *)
\* C27: every TaskResult a call returns has the task id of its context, the
\* status completed or failed, an execution time, and either output data and no
\* error message (completed) or an error message and no output data (failed).
C27_WellFormed ==
    \A p \in Calls :
        outcome[p].kind = "TaskResult" =>
            /\ outcome[p].task_id = context[p].task_id
            /\ outcome[p].status \in {COMPLETED, FAILED}
            /\ outcome[p].execution_time_ms # Nothing
            /\ outcome[p].status = COMPLETED =>
                  outcome[p].output_data # Nothing /\ outcome[p].error_message = Nothing
            /\ outcome[p].status = FAILED =>
                  outcome[p].error_message # Nothing /\ outcome[p].output_data = Nothing

\* a call returned failed after an exception, with a message and a time that is
\* not zero
C27_Witness ==
    \E p \in Calls :
        /\ Done(p) /\ Failed(p)
        /\ frame[p].exc # Nothing
        /\ outcome[p].error_message = Some(ErrorMessage(frame[p].exc[1]))
        /\ outcome[p].execution_time_ms # Some(0)
        /\ outcome[p].execution_time_ms # Nothing

(* ----------------------------- the stamps ------------------------------ *)
\* C28: the context of a call that has returned carries started_at and
\* completed_at, and started_at is not later than completed_at.
C28_Stamped ==
    \A p \in Calls :
        Done(p) =>
            /\ context[p].started_at # Nothing
            /\ context[p].completed_at # Nothing
            /\ context[p].started_at[1] <= context[p].completed_at[1]

(* ----------------------------- concurrent chats ------------------------ *)
\* C29: when the concurrent chat tasks of one agent and session have all
\* completed, the buffer of the session holds, for each task, its user message
\* immediately followed by the response generated for it.
C29_AdjacentPairs ==
    (\A p \in Calls : Done(p) /\ Completed(p)) =>
        \A p \in Calls :
            LET messages == agent_memories[frame[p].agent_memory[1]].messages IN
            \E i \in 1..(Len(messages) - 1) :
                /\ messages[i] = HumanMessage(call[p].message)
                /\ messages[i + 1] = AIMessage(frame[p].response[1])

(* ----------------------------- what a task writes ---------------------- *)
\* nothing of the chat task p is in the buffers or in the store: not its user
\* message as a message, as a context item or in a turn
NothingOf(p) ==
    /\ \A key \in DOMAIN agent_memories :
          \A i \in DOMAIN agent_memories[key].messages :
              agent_memories[key].messages[i].content # call[p].message
    /\ \A i \in DOMAIN context_items : context_items[i].content # call[p].message
    /\ \A s \in DOMAIN session_turns :
          \A i \in DOMAIN session_turns[s] :
              session_turns[s][i].user_message # call[p].message

\* C26 as stated: a chat task whose retrieval or whose provider call failed
\* leaves the memory of the session unchanged.
C26_UnchangedOnFailure ==
    \A p \in Calls :
        (call[p].op = "chat" /\ (frame[p].rag_exc # Nothing \/ frame[p].exc # Nothing))
            => NothingOf(p)

\* C26, amended: a chat task writes to memory only after the provider has
\* answered, and a task that failed (its provider call or a step before it
\* raised) leaves the memory unchanged; a failed retrieval is absorbed and does
\* not keep the task from writing.
C26_WrittenAfterAnswer ==
    \A p \in Calls :
        call[p].op = "chat" =>
            /\ frame[p].response = Nothing => NothingOf(p)
            /\ frame[p].exc # Nothing => NothingOf(p)
            /\ (Done(p) /\ Completed(p)) => ~NothingOf(p)

\* a task whose retrieval failed has completed and its exchange is in the
\* memory; the task after it failed at the provider and left nothing
C26_Witness ==
    \E p, q \in Calls :
        /\ Done(q) /\ Completed(q) /\ frame[q].rag_exc # Nothing /\ ~NothingOf(q)
        /\ Done(p) /\ Failed(p) /\ Threw(p, ProviderErrors) /\ NothingOf(p)
        /\ frame[p].rag_queries > 0

(* ----------------------------- relevant context ------------------------ *)
\* the number of words of the query that are words of the content
Overlap(query, content) ==
    Cardinality(Range(Split(Lower(query))) \cap Range(Split(Lower(content))))

\* C25: get_relevant_context returns at most `limit` items, each sharing a word
\* with the query, and no stored item of the agent that is left out shares more
\* words with the query than a returned one.
C25_RankedByOverlap ==
    relevant.asked =>
        LET ret == relevant.ret
            stored == AgentItems(relevant.agent_id)
        IN
        /\ Len(ret) <= relevant.limit
        /\ \A i \in DOMAIN ret : Overlap(relevant.query, ret[i].content) > 0
        /\ \A j \in DOMAIN stored :
              stored[j] \notin Range(ret) =>
                  \A i \in DOMAIN ret :
                      Overlap(relevant.query, stored[j].content)
                          <= Overlap(relevant.query, ret[i].content)

(* ----------------------------- the roles of the prompt ----------------- *)
\* C38: in the prompt, each entry taken from the history has the role of its
\* speaker: user for a message recorded as a user message, assistant for one
\* recorded as an agent response.
C38_RolesKept ==
    \A p \in Calls :
        frame[p].messages # <<>> =>
            LET taken == LastN(frame[p].history, HistoryLimit) IN
            \A i \in 1..Len(taken) :
                frame[p].messages[1 + i].role =
                    IF taken[i].type = "human" THEN "user" ELSE "assistant"

(* ----------------------------- the round trip of a turn ---------------- *)
\* C32: the turn of a completed chat task, with or without sources of a
\* retrieval, is among the turns get_session_history returns for its session,
\* with the task's message and the provider's response.
C32_TurnRoundTrip ==
    \A p \in Calls :
        (call[p].op = "chat" /\ Done(p) /\ Completed(p)) =>
            \E turn \in Range(get_session_history(session_turns, call[p].session_id,
                                                  SessionHistoryLimit, store_up)) :
                /\ turn.user_message = call[p].message
                /\ turn.agent_response = frame[p].response[1]

(* ----------------------------- a cleared session ----------------------- *)
\* C33: the history a chat task gets after the session was cleared, and so its
\* prompt, holds no message that was in the buffer before the clear.
C33_NothingBeforeClear ==
    \A p \in Calls :
        (InFlight(p) /\ frame[p].messages # <<>>) =>
            \A i \in DOMAIN frame[p].history :
                <<frame[p].agent_memory[1], frame[p].history[i].content>> \notin cleared

(* ----------------------------- the memory handles ---------------------- *)
\* C31: two different pairs of agent id and session id are never given the same
\* memory, and the memory a pair is given was made for that pair.
C31_OneMemoryPerPair ==
    \A x, y \in DOMAIN handles :
        /\ x # y => handles[x] # handles[y]
        /\ agent_memories[handles[x]].agent_id = x[1]

(* ----------------------------- the tool listing ------------------------ *)
\* C34: the tools get_available_tools lists for an agent type and a clearance
\* are the tools of the table that check_tool_access grants to them.
C34_ListingIsAccess ==
    listing.asked =>
        listing.ret =
            {n \in DOMAIN toolTable :
                check_tool_access(toolTable, n, listing.agent_type,
                                  listing.security_clearance)}

(* ----------------------------- the built-in tools ---------------------- *)
\* C35: while the table holds exactly the built-in tools, no required tool of
\* any task type, the fallback included, is the name of a built-in tool or is
\* granted to any agent type; a tool task never reaches a handler and returns
\* failed, with the access-denied message (with the message of the exception
\* if a query of the registry raised).
C35_BuiltinsNeverGrant ==
    /\ \A t \in TaskTypes, a \in AgentTypes :
          /\ Accessible(BuiltinTools, _determine_required_tools(t), a) = <<>>
          /\ Range(_determine_required_tools(t)) \cap DOMAIN BuiltinTools = {}
    /\ \A p \in Calls :
          (call[p].op = "tool" /\ toolTable = BuiltinTools) =>
              /\ pc[p] # "handler"
              /\ outcome[p].kind = "TaskResult" =>
                    /\ outcome[p].status = FAILED
                    /\ outcome[p].error_message =
                           IF frame[p].exc = Nothing
                           THEN Some(AccessDenied(
                                    _determine_required_tools(call[p].task_type)))
                           ELSE Some(ErrorMessage(frame[p].exc[1]))

\* a tool task of the fallback task type was refused on the built-in table
C35_Witness ==
    \E p \in Calls :
        /\ call[p].op = "tool" /\ call[p].task_type = "summarize"
        /\ toolTable = BuiltinTools
        /\ Done(p) /\ Failed(p)
        /\ outcome[p].error_message = Some(AccessDenied(<<"generic_processor">>))

(* ----------------------------- concurrent initialize ------------------- *)
\* C36: with tool tasks initializing their registries side by side on an empty
\* table, no task fails on the unique constraint of tool_name, and once every
\* call is done the table holds each built-in tool, once.
C36_InitializeRaceFree ==
    /\ \A p \in Calls : ~Threw(p, {IntegrityError})
    /\ (\A p \in Calls : Done(p)) => DOMAIN toolTable = DOMAIN BuiltinTools

(* ----------------------------- progress -------------------------------- *)
\* the calls and the client inside `async with self._task_lock`
InCriticalSection ==
    {p \in Calls : pc[p] \in {"register_cs", "unregister_cs"}}
        \cup (IF client.pc \in {"cancel_task", "get_task_status"} THEN {Client} ELSE {})

\* C37: the lock is held only inside the bodies of the four registry
\* operations, which hold no suspension point; a cancel or status query that
\* waits for the lock gets it and returns; and every call that was made returns
\* a TaskResult, which it does only through its _register_task and its
\* _unregister_task, each taking the lock and giving it back.
C37_Progress ==
    /\ [](task_lock = InCriticalSection)
    /\ (client.pc = "waiting") ~> (client.pc = "idle")
    /\ \A p \in Calls : (pc[p] # "idle") ~> (Done(p) /\ outcome[p].kind = "TaskResult")

\* both calls have returned a TaskResult, one of them after the client
\* cancelled it, and the client is in a registry operation again
C37_Witness ==
    /\ \A p \in Calls : Done(p) /\ outcome[p].kind = "TaskResult"
    /\ cancelled # {}
    /\ Client \in task_lock

====
